---- MODULE Spec2Model ----
(***************************************************************************)
(* Model of the jmdict crate: the record normaliser (jmdict-traverse),     *)
(* the payload encoder of the build script (build.rs), the enum registry   *)
(* generated by jmdict-enums/build.rs and the zero-copy reader             *)
(* (src/payload.rs, src/lib.rs).                                           *)
(*                                                                         *)
(* Representation choices:                                                 *)
(*  - a u32 word of the payload is a pair <<hi, lo>> of its two 16-bit     *)
(*    halves, so that all 32 bits are kept although TLC's integers are     *)
(*    31-bit; usize values (pool indexes, lengths) are naturals;           *)
(*  - a string is a sequence of bytes; a priority marker is a sequence of  *)
(*    one-character strings, because parse_freq_bucket reads characters;   *)
(*  - a value of a generated enum is the code of its variant;              *)
(*  - a JSON member that is absent (null) is the value Null;               *)
(*  - Option/Result/panic outcomes are records with a "tag" field.         *)
(***************************************************************************)
EXTENDS Integers, Sequences, FiniteSets, TLC

VARIABLES
  features,   \* the cargo features of the build (cfg!(feature = ...)), a set of names
  contents,   \* the lines of the entry pack (one JSON object each), in file order
  consumed,   \* how many lines process_dictionary of the build has consumed
  omni,       \* build.rs OmniBuffer: [entry_offsets, data, text]
  handed,     \* the entries handed to OmniBuffer::process_entry, in order
  pc,         \* where main() of build.rs stands
  files,      \* the three artifacts in OUT_DIR (NoFiles until written)
  it,         \* the reader's Entries iterator: [start, end], or NoIter
  yielded,    \* the Entry views the iterator has returned, in order
  chk,        \* check_consistency: [pos, status] of the second traversal
  prio,       \* one run of parse_prio: [markers, idx, result, status]
  conv,       \* one enum conversion: [enum, value, status, narrowed, widened]
  readers,    \* the readers of the artifacts, each with its own iterators
  rerun,      \* a second encoder run over the same entries: [omni, fed]
  pack        \* one header word pair of a Gloss or LoanwordSource, packed and unpacked

vars == <<features, contents, consumed, omni, handed, pc, files, it, yielded,
          chk, prio, conv, readers, rerun, pack>>

----------------------------------------------------------------------------
(* u32 arithmetic on <<hi, lo>> pairs                                      *)

Half == 2^16

\* the u32 of a natural below 2^31
W(n) == <<n \div Half, n % Half>>

\* the natural of a u32 below 2^31
V(w) == w[1] * Half + w[2]

RECURSIVE BitOr16(_, _)
BitOr16(a, b) ==
  IF a = 0 THEN b
  ELSE IF b = 0 THEN a
  ELSE (IF a % 2 = 1 \/ b % 2 = 1 THEN 1 ELSE 0) + 2 * BitOr16(a \div 2, b \div 2)

\* a | b on u32
BitOr32(a, b) == <<BitOr16(a[1], b[1]), BitOr16(a[2], b[2])>>

\* (n as u32) << k for k in 8, 16, 24, 28: bits shifted past bit 31 are lost
Shl32(n, k) ==
  LET m == n % (2^(32 - k))
  IN  IF k >= 16 THEN <<m * 2^(k - 16), 0>>
      ELSE <<(m * 2^k) \div Half, (m * 2^k) % Half>>

\* a + b on u32, wrapping
Add32(a, b) ==
  LET lo == a[2] + b[2]
      hi == a[1] + b[1] + (lo \div Half)
  IN  <<hi % Half, lo % Half>>

\* a + b on u32 does not fit in 32 bits
AddOverflows32(a, b) == a[1] + b[1] + ((a[2] + b[2]) \div Half) >= Half

----------------------------------------------------------------------------
(* Outcomes                                                                *)

Null    == "<null>"     \* an absent JSON member where a code string is expected
NullStr == <<-1>>       \* an absent JSON member where a text is expected
NoneV   == [tag |-> "none"]
PanicV  == [tag |-> "panic"]
Some(v) == [tag |-> "some", val |-> v]
IsSome(r)  == r.tag = "some"
IsNone(r)  == r.tag = "none"
IsPanic(r) == r.tag = "panic"

\* let v = ...; the rest of the function body F sees the bound value
Bind(v, F(_)) == F(v)

\* a binding whose right-hand side is evaluated before the body runs, as a
\* Rust `let` evaluates it
Strict(v, F(_)) == CHOOSE y \in {F(x) : x \in {v}} : TRUE

----------------------------------------------------------------------------
(* Enum registry: the variant lists of jmdict-enums/build.rs.  A variant   *)
(* is [code, feature]; feature "" means the variant is always enabled.     *)

DialectVariants == <<
  [code |-> "bra", feature |-> ""],
  [code |-> "hob", feature |-> ""],
  [code |-> "ksb", feature |-> ""],
  [code |-> "ktb", feature |-> ""],
  [code |-> "kyb", feature |-> ""],
  [code |-> "kyu", feature |-> ""],
  [code |-> "nab", feature |-> ""],
  [code |-> "osb", feature |-> ""],
  [code |-> "rkb", feature |-> ""],
  [code |-> "thb", feature |-> ""],
  [code |-> "tsb", feature |-> ""],
  [code |-> "tsug", feature |-> ""]
>>

GlossLanguageVariants == <<
  [code |-> "eng", feature |-> "translations-eng"],
  [code |-> "dut", feature |-> "translations-dut"],
  [code |-> "fre", feature |-> "translations-fre"],
  [code |-> "ger", feature |-> "translations-ger"],
  [code |-> "hun", feature |-> "translations-hun"],
  [code |-> "rus", feature |-> "translations-rus"],
  [code |-> "slv", feature |-> "translations-slv"],
  [code |-> "spa", feature |-> "translations-spa"],
  [code |-> "swe", feature |-> "translations-swe"]
>>

GlossTypeVariants == <<
  [code |-> "", feature |-> ""],
  [code |-> "expl", feature |-> ""],
  [code |-> "fig", feature |-> ""],
  [code |-> "lit", feature |-> ""],
  [code |-> "tm", feature |-> ""]
>>

KanjiInfoVariants == <<
  [code |-> "ateji", feature |-> ""],
  [code |-> "iK", feature |-> ""],
  [code |-> "ik", feature |-> ""],
  [code |-> "io", feature |-> ""],
  [code |-> "oK", feature |-> ""],
  [code |-> "rK", feature |-> ""]
>>

PartOfSpeechVariants == <<
  [code |-> "adj-f", feature |-> ""],
  [code |-> "adj-i", feature |-> ""],
  [code |-> "adj-ix", feature |-> ""],
  [code |-> "adj-kari", feature |-> "scope-archaic"],
  [code |-> "adj-ku", feature |-> "scope-archaic"],
  [code |-> "adj-na", feature |-> ""],
  [code |-> "adj-nari", feature |-> "scope-archaic"],
  [code |-> "adj-no", feature |-> ""],
  [code |-> "adj-pn", feature |-> ""],
  [code |-> "adj-shiku", feature |-> "scope-archaic"],
  [code |-> "adj-t", feature |-> ""],
  [code |-> "adv", feature |-> ""],
  [code |-> "adv-to", feature |-> ""],
  [code |-> "aux", feature |-> ""],
  [code |-> "aux-adj", feature |-> ""],
  [code |-> "aux-v", feature |-> ""],
  [code |-> "conj", feature |-> ""],
  [code |-> "cop", feature |-> ""],
  [code |-> "ctr", feature |-> ""],
  [code |-> "exp", feature |-> ""],
  [code |-> "int", feature |-> ""],
  [code |-> "n", feature |-> ""],
  [code |-> "n-adv", feature |-> ""],
  [code |-> "n-pr", feature |-> ""],
  [code |-> "n-pref", feature |-> ""],
  [code |-> "n-suf", feature |-> ""],
  [code |-> "n-t", feature |-> ""],
  [code |-> "num", feature |-> ""],
  [code |-> "pn", feature |-> ""],
  [code |-> "pref", feature |-> ""],
  [code |-> "prt", feature |-> ""],
  [code |-> "suf", feature |-> ""],
  [code |-> "unc", feature |-> ""],
  [code |-> "v-unspec", feature |-> ""],
  [code |-> "v1", feature |-> ""],
  [code |-> "v1-s", feature |-> ""],
  [code |-> "v2a-s", feature |-> "scope-archaic"],
  [code |-> "v2b-k", feature |-> "scope-archaic"],
  [code |-> "v2b-s", feature |-> "scope-archaic"],
  [code |-> "v2d-k", feature |-> "scope-archaic"],
  [code |-> "v2d-s", feature |-> "scope-archaic"],
  [code |-> "v2g-k", feature |-> "scope-archaic"],
  [code |-> "v2g-s", feature |-> "scope-archaic"],
  [code |-> "v2h-k", feature |-> "scope-archaic"],
  [code |-> "v2h-s", feature |-> "scope-archaic"],
  [code |-> "v2k-k", feature |-> "scope-archaic"],
  [code |-> "v2k-s", feature |-> "scope-archaic"],
  [code |-> "v2m-k", feature |-> "scope-archaic"],
  [code |-> "v2m-s", feature |-> "scope-archaic"],
  [code |-> "v2n-s", feature |-> "scope-archaic"],
  [code |-> "v2r-k", feature |-> "scope-archaic"],
  [code |-> "v2r-s", feature |-> "scope-archaic"],
  [code |-> "v2s-s", feature |-> "scope-archaic"],
  [code |-> "v2t-k", feature |-> "scope-archaic"],
  [code |-> "v2t-s", feature |-> "scope-archaic"],
  [code |-> "v2w-s", feature |-> "scope-archaic"],
  [code |-> "v2y-k", feature |-> "scope-archaic"],
  [code |-> "v2y-s", feature |-> "scope-archaic"],
  [code |-> "v2z-s", feature |-> "scope-archaic"],
  [code |-> "v4b", feature |-> "scope-archaic"],
  [code |-> "v4g", feature |-> "scope-archaic"],
  [code |-> "v4h", feature |-> "scope-archaic"],
  [code |-> "v4k", feature |-> "scope-archaic"],
  [code |-> "v4m", feature |-> "scope-archaic"],
  [code |-> "v4n", feature |-> "scope-archaic"],
  [code |-> "v4r", feature |-> "scope-archaic"],
  [code |-> "v4s", feature |-> "scope-archaic"],
  [code |-> "v4t", feature |-> "scope-archaic"],
  [code |-> "v5aru", feature |-> ""],
  [code |-> "v5b", feature |-> ""],
  [code |-> "v5g", feature |-> ""],
  [code |-> "v5k", feature |-> ""],
  [code |-> "v5k-s", feature |-> ""],
  [code |-> "v5m", feature |-> ""],
  [code |-> "v5n", feature |-> ""],
  [code |-> "v5r", feature |-> ""],
  [code |-> "v5r-i", feature |-> ""],
  [code |-> "v5s", feature |-> ""],
  [code |-> "v5t", feature |-> ""],
  [code |-> "v5u", feature |-> ""],
  [code |-> "v5u-s", feature |-> ""],
  [code |-> "vi", feature |-> ""],
  [code |-> "vk", feature |-> ""],
  [code |-> "vn", feature |-> ""],
  [code |-> "vr", feature |-> ""],
  [code |-> "vs", feature |-> ""],
  [code |-> "vs-c", feature |-> ""],
  [code |-> "vs-i", feature |-> ""],
  [code |-> "vs-s", feature |-> ""],
  [code |-> "vt", feature |-> ""],
  [code |-> "vz", feature |-> ""]
>>

ReadingInfoVariants == <<
  [code |-> "gikun", feature |-> ""],
  [code |-> "ik", feature |-> ""],
  [code |-> "ok", feature |-> ""],
  [code |-> "uK", feature |-> ""]
>>

SenseInfoVariants == <<
  [code |-> "X", feature |-> ""],
  [code |-> "abbr", feature |-> ""],
  [code |-> "arch", feature |-> ""],
  [code |-> "char", feature |-> ""],
  [code |-> "chn", feature |-> ""],
  [code |-> "col", feature |-> ""],
  [code |-> "company", feature |-> ""],
  [code |-> "creat", feature |-> ""],
  [code |-> "dated", feature |-> ""],
  [code |-> "dei", feature |-> ""],
  [code |-> "derog", feature |-> ""],
  [code |-> "doc", feature |-> ""],
  [code |-> "ev", feature |-> ""],
  [code |-> "fam", feature |-> ""],
  [code |-> "fem", feature |-> ""],
  [code |-> "fict", feature |-> ""],
  [code |-> "form", feature |-> ""],
  [code |-> "given", feature |-> ""],
  [code |-> "group", feature |-> ""],
  [code |-> "hist", feature |-> ""],
  [code |-> "hon", feature |-> ""],
  [code |-> "hum", feature |-> ""],
  [code |-> "id", feature |-> ""],
  [code |-> "joc", feature |-> ""],
  [code |-> "leg", feature |-> ""],
  [code |-> "m-sl", feature |-> ""],
  [code |-> "male", feature |-> ""],
  [code |-> "myth", feature |-> ""],
  [code |-> "net-sl", feature |-> ""],
  [code |-> "obj", feature |-> ""],
  [code |-> "obs", feature |-> ""],
  [code |-> "obsc", feature |-> ""],
  [code |-> "on-mim", feature |-> ""],
  [code |-> "organization", feature |-> ""],
  [code |-> "oth", feature |-> ""],
  [code |-> "person", feature |-> ""],
  [code |-> "place", feature |-> ""],
  [code |-> "poet", feature |-> ""],
  [code |-> "pol", feature |-> ""],
  [code |-> "product", feature |-> ""],
  [code |-> "proverb", feature |-> ""],
  [code |-> "quote", feature |-> ""],
  [code |-> "rare", feature |-> ""],
  [code |-> "relig", feature |-> ""],
  [code |-> "sens", feature |-> ""],
  [code |-> "serv", feature |-> ""],
  [code |-> "sl", feature |-> ""],
  [code |-> "station", feature |-> ""],
  [code |-> "surname", feature |-> ""],
  [code |-> "uk", feature |-> ""],
  [code |-> "unclass", feature |-> ""],
  [code |-> "vulg", feature |-> ""],
  [code |-> "work", feature |-> ""],
  [code |-> "yoji", feature |-> ""]
>>

SenseTopicVariants == <<
  [code |-> "Buddh", feature |-> ""],
  [code |-> "Christn", feature |-> ""],
  [code |-> "MA", feature |-> ""],
  [code |-> "Shinto", feature |-> ""],
  [code |-> "agric", feature |-> ""],
  [code |-> "anat", feature |-> ""],
  [code |-> "archeol", feature |-> ""],
  [code |-> "archit", feature |-> ""],
  [code |-> "art", feature |-> ""],
  [code |-> "astron", feature |-> ""],
  [code |-> "audvid", feature |-> ""],
  [code |-> "aviat", feature |-> ""],
  [code |-> "baseb", feature |-> ""],
  [code |-> "biochem", feature |-> ""],
  [code |-> "biol", feature |-> ""],
  [code |-> "bot", feature |-> ""],
  [code |-> "bus", feature |-> ""],
  [code |-> "chem", feature |-> ""],
  [code |-> "cloth", feature |-> ""],
  [code |-> "comp", feature |-> ""],
  [code |-> "cryst", feature |-> ""],
  [code |-> "ecol", feature |-> ""],
  [code |-> "econ", feature |-> ""],
  [code |-> "elec", feature |-> ""],
  [code |-> "electr", feature |-> ""],
  [code |-> "embryo", feature |-> ""],
  [code |-> "engr", feature |-> ""],
  [code |-> "ent", feature |-> ""],
  [code |-> "finc", feature |-> ""],
  [code |-> "fish", feature |-> ""],
  [code |-> "food", feature |-> ""],
  [code |-> "gardn", feature |-> ""],
  [code |-> "genet", feature |-> ""],
  [code |-> "geogr", feature |-> ""],
  [code |-> "geol", feature |-> ""],
  [code |-> "geom", feature |-> ""],
  [code |-> "go", feature |-> ""],
  [code |-> "golf", feature |-> ""],
  [code |-> "gramm", feature |-> ""],
  [code |-> "grmyth", feature |-> ""],
  [code |-> "hanaf", feature |-> ""],
  [code |-> "horse", feature |-> ""],
  [code |-> "law", feature |-> ""],
  [code |-> "ling", feature |-> ""],
  [code |-> "logic", feature |-> ""],
  [code |-> "mahj", feature |-> ""],
  [code |-> "math", feature |-> ""],
  [code |-> "mech", feature |-> ""],
  [code |-> "med", feature |-> ""],
  [code |-> "met", feature |-> ""],
  [code |-> "mil", feature |-> ""],
  [code |-> "music", feature |-> ""],
  [code |-> "ornith", feature |-> ""],
  [code |-> "paleo", feature |-> ""],
  [code |-> "pathol", feature |-> ""],
  [code |-> "pharm", feature |-> ""],
  [code |-> "phil", feature |-> ""],
  [code |-> "photo", feature |-> ""],
  [code |-> "physics", feature |-> ""],
  [code |-> "physiol", feature |-> ""],
  [code |-> "print", feature |-> ""],
  [code |-> "psy", feature |-> ""],
  [code |-> "psych", feature |-> ""],
  [code |-> "rail", feature |-> ""],
  [code |-> "shogi", feature |-> ""],
  [code |-> "sports", feature |-> ""],
  [code |-> "stat", feature |-> ""],
  [code |-> "sumo", feature |-> ""],
  [code |-> "telec", feature |-> ""],
  [code |-> "tradem", feature |-> ""],
  [code |-> "vidg", feature |-> ""],
  [code |-> "zool", feature |-> ""]
>>
\* cfg!(feature = ...) of one variant: v(...) is enabled, .when(c) sets it to c
\* a registry in which every variant is enabled whatever the features;
\* C7_LanguageFilter tells it from IsEnabled
IsEnabled_always(v) == TRUE

IsEnabled(v) == v.feature = "" \/ v.feature \in features

\* e.variants.iter().filter(|v| v.enabled): the variants of the generated enum
EnabledVariants(variants) == SelectSeq(variants, IsEnabled)

\* The generated enum types.  An "All..." type is generated from the same
\* list with every variant enabled.
Dialect          == [variants |-> DialectVariants, all |-> FALSE]
GlossLanguage    == [variants |-> GlossLanguageVariants, all |-> FALSE]
AllGlossLanguage == [variants |-> GlossLanguageVariants, all |-> TRUE]
GlossType        == [variants |-> GlossTypeVariants, all |-> FALSE]
KanjiInfo        == [variants |-> KanjiInfoVariants, all |-> FALSE]
PartOfSpeech     == [variants |-> PartOfSpeechVariants, all |-> FALSE]
AllPartOfSpeech  == [variants |-> PartOfSpeechVariants, all |-> TRUE]
ReadingInfo      == [variants |-> ReadingInfoVariants, all |-> FALSE]
SenseInfo        == [variants |-> SenseInfoVariants, all |-> FALSE]
SenseTopic       == [variants |-> SenseTopicVariants, all |-> FALSE]

\* the variants of the enum type E, in declaration order
VariantsOf(E) == IF E.all THEN E.variants ELSE EnabledVariants(E.variants)

CodesOf(E) == LET vs == VariantsOf(E) IN {vs[i].code : i \in DOMAIN vs}

\* Enum::from_code
from_code(E, text) == IF text \in CodesOf(E) THEN Some(text) ELSE NoneV

\* a TryFrom whose arms are all Ok arms
try_from_unchecked(E, value) == [tag |-> "ok", val |-> value]

\* TryFrom<All...> for the restricted enum E
try_from(E, value) ==
  IF \E i \in DOMAIN E.variants :
       E.variants[i].code = value /\ IsEnabled(E.variants[i])
    THEN [tag |-> "ok", val |-> value]
    ELSE [tag |-> "err", val |-> "DisabledVariant"]

\* From<E> for All...: one arm per enabled variant, E::v => All...::v
from(E, value) ==
  LET vs  == EnabledVariants(E.variants)
      arm == CHOOSE i \in DOMAIN vs : vs[i].code = value
  IN  vs[arm].code

\* to_u32 with the index among all declared variants, enabled or not
to_u32_declared(E, value) ==
  (CHOOSE i \in DOMAIN E.variants : E.variants[i].code = value) - 1

\* EnumPayload::to_u32: the index among the variants of E
to_u32(E, value) ==
  LET vs == VariantsOf(E)
  IN  (CHOOSE i \in DOMAIN vs : vs[i].code = value) - 1

\* EnumPayload::from_u32: panics on an ordinal no variant of E has
from_u32(E, code) ==
  LET vs == VariantsOf(E)
  IN  IF code + 1 \in DOMAIN vs THEN Some(vs[code + 1].code) ELSE PanicV

----------------------------------------------------------------------------
(* Priority and the marker merge (jmdict-traverse/src/lib.rs)              *)

NoPriority ==
  [news |-> "Absent", ichimango |-> "Absent", loanwords |-> "Absent",
   additional |-> "Absent", frequency_bucket |-> 0]

\* PriorityInCorpus as stored in one 4-bit field of the priority word
cprio_to_repr(p) ==
  CASE p = "Absent" -> 0 [] p = "Secondary" -> 1 [] p = "Primary" -> 2

cprio_from_repr(r) ==
  CASE r = 0 -> Some("Absent") [] r = 1 -> Some("Secondary")
    [] r = 2 -> Some("Primary") [] OTHER -> PanicV

\* EnumPayload::to_u32 of Priority: four 4-bit tiers, then the bucket from bit 16
priority_to_u32(p) ==
  cprio_to_repr(p.news) + 16 * cprio_to_repr(p.ichimango)
    + 256 * cprio_to_repr(p.loanwords) + 4096 * cprio_to_repr(p.additional)
    + Half * p.frequency_bucket

\* EnumPayload::from_u32 of Priority (of a word below 2^31)
priority_from_u32(code) ==
  LET n == cprio_from_repr(code % 16)
      i == cprio_from_repr((code \div 16) % 16)
      l == cprio_from_repr((code \div 256) % 16)
      a == cprio_from_repr((code \div 4096) % 16)
  IN  IF IsPanic(n) \/ IsPanic(i) \/ IsPanic(l) \/ IsPanic(a) THEN PanicV
      ELSE Some([news |-> n.val, ichimango |-> i.val, loanwords |-> l.val,
                 additional |-> a.val, frequency_bucket |-> code \div Half])

news1 == <<"n", "e", "w", "s", "1">>
news2 == <<"n", "e", "w", "s", "2">>
ichi1 == <<"i", "c", "h", "i", "1">>
ichi2 == <<"i", "c", "h", "i", "2">>
gai1  == <<"g", "a", "i", "1">>
gai2  == <<"g", "a", "i", "2">>
spec1 == <<"s", "p", "e", "c", "1">>
spec2 == <<"s", "p", "e", "c", "2">>

\* a merge that keeps the tier of the last marker seen; C10_TierMerge tells
\* it from merge_cprio
merge_cprio_last(old, new) == new

merge_cprio(old, new) ==
  IF old = "Absent" THEN new
  ELSE IF new = "Primary" THEN "Primary"
  ELSE IF old = "Primary" THEN "Primary"
  ELSE "Secondary"

\* char::to_digit(10)
to_digit(c) ==
  CASE c = "0" -> Some(0) [] c = "1" -> Some(1) [] c = "2" -> Some(2)
    [] c = "3" -> Some(3) [] c = "4" -> Some(4) [] c = "5" -> Some(5)
    [] c = "6" -> Some(6) [] c = "7" -> Some(7) [] c = "8" -> Some(8)
    [] c = "9" -> Some(9) [] OTHER -> NoneV

\* a parse_freq_bucket that adds the two digits instead of reading them as a
\* number; C11_FrequencyBucket tells it from parse_freq_bucket
parse_freq_bucket_sum(marker) ==
  IF Len(marker) < 1 \/ marker[1] # "n" THEN NoneV
  ELSE IF Len(marker) < 2 \/ marker[2] # "f" THEN NoneV
  ELSE IF Len(marker) < 3 \/ IsNone(to_digit(marker[3])) THEN NoneV
  ELSE IF Len(marker) < 4 \/ IsNone(to_digit(marker[4])) THEN NoneV
  ELSE IF Len(marker) > 4 THEN NoneV
  ELSE LET result == to_digit(marker[3]).val + to_digit(marker[4]).val
       IN  IF result = 0 \/ result > 48 THEN NoneV ELSE Some(result)

\* a parse_freq_bucket without the test of the range 01..48;
\* C12_MarkerVocabulary tells it from parse_freq_bucket
parse_freq_bucket_any(marker) ==
  IF Len(marker) < 1 \/ marker[1] # "n" THEN NoneV
  ELSE IF Len(marker) < 2 \/ marker[2] # "f" THEN NoneV
  ELSE IF Len(marker) < 3 \/ IsNone(to_digit(marker[3])) THEN NoneV
  ELSE IF Len(marker) < 4 \/ IsNone(to_digit(marker[4])) THEN NoneV
  ELSE IF Len(marker) > 4 THEN NoneV
  ELSE Some(10 * to_digit(marker[3]).val + to_digit(marker[4]).val)

parse_freq_bucket(marker) ==
  IF Len(marker) < 1 \/ marker[1] # "n" THEN NoneV
  ELSE IF Len(marker) < 2 \/ marker[2] # "f" THEN NoneV
  ELSE IF Len(marker) < 3 \/ IsNone(to_digit(marker[3])) THEN NoneV
  ELSE IF Len(marker) < 4 \/ IsNone(to_digit(marker[4])) THEN NoneV
  ELSE IF Len(marker) > 4 THEN NoneV
  ELSE LET result == 10 * to_digit(marker[3]).val + to_digit(marker[4]).val
       IN  IF result = 0 \/ result > 48 THEN NoneV ELSE Some(result)

\* an iteration of the loop of parse_prio that takes every bucket it reads,
\* whatever bucket it holds
parse_prio_step_latest(result, marker) ==
  CASE marker = news1 -> Some([result EXCEPT !.news = merge_cprio(@, "Primary")])
    [] marker = news2 -> Some([result EXCEPT !.news = merge_cprio(@, "Secondary")])
    [] marker = ichi1 -> Some([result EXCEPT !.ichimango = merge_cprio(@, "Primary")])
    [] marker = ichi2 -> Some([result EXCEPT !.ichimango = merge_cprio(@, "Secondary")])
    [] marker = gai1  -> Some([result EXCEPT !.loanwords = merge_cprio(@, "Primary")])
    [] marker = gai2  -> Some([result EXCEPT !.loanwords = merge_cprio(@, "Secondary")])
    [] marker = spec1 -> Some([result EXCEPT !.additional = merge_cprio(@, "Primary")])
    [] marker = spec2 -> Some([result EXCEPT !.additional = merge_cprio(@, "Secondary")])
    [] OTHER ->
         LET bucket == parse_freq_bucket(marker)
         IN  IF IsSome(bucket)
               THEN Some([result EXCEPT !.frequency_bucket = bucket.val])
               ELSE PanicV

\* one iteration of the loop of parse_prio: the new result, or a panic
parse_prio_step(result, marker) ==
  CASE marker = news1 -> Some([result EXCEPT !.news = merge_cprio(@, "Primary")])
    [] marker = news2 -> Some([result EXCEPT !.news = merge_cprio(@, "Secondary")])
    [] marker = ichi1 -> Some([result EXCEPT !.ichimango = merge_cprio(@, "Primary")])
    [] marker = ichi2 -> Some([result EXCEPT !.ichimango = merge_cprio(@, "Secondary")])
    [] marker = gai1  -> Some([result EXCEPT !.loanwords = merge_cprio(@, "Primary")])
    [] marker = gai2  -> Some([result EXCEPT !.loanwords = merge_cprio(@, "Secondary")])
    [] marker = spec1 -> Some([result EXCEPT !.additional = merge_cprio(@, "Primary")])
    [] marker = spec2 -> Some([result EXCEPT !.additional = merge_cprio(@, "Secondary")])
    [] OTHER ->
         LET bucket == parse_freq_bucket(marker)
         IN  IF IsSome(bucket)
               THEN Some(IF result.frequency_bucket = 0
                            \/ result.frequency_bucket > bucket.val
                           THEN [result EXCEPT !.frequency_bucket = bucket.val]
                           ELSE result)
               ELSE PanicV

RECURSIVE parse_prio_from(_, _)
parse_prio_from(result, markers) ==
  IF markers = <<>> THEN Some(result)
  ELSE LET step == parse_prio_step(result, Head(markers))
       IN  IF IsPanic(step) THEN PanicV
           ELSE parse_prio_from(step.val, Tail(markers))

parse_prio(markers) == parse_prio_from(NoPriority, markers)

----------------------------------------------------------------------------
(* Record normaliser (jmdict-traverse/src/lib.rs)                          *)

\* Options with with_archaic stuck at true; C6_ArchaicFilter tells it from
\* opts
opts_archaic ==
  [is_db_minimal |-> "db-minimal" \in features,
   with_uncommon |-> "scope-uncommon" \in features,
   with_archaic  |-> TRUE]

\* Options, as main() of build.rs and check_consistency fill it in
opts ==
  [is_db_minimal |-> "db-minimal" \in features,
   with_uncommon |-> "scope-uncommon" \in features,
   with_archaic  |-> "scope-archaic" \in features]

optional_enum(E, obj, default) ==
  LET code == IF obj = Null THEN default ELSE obj
  IN  IF IsSome(from_code(E, code)) THEN from_code(E, code) ELSE PanicV

required_enum(E, obj) ==
  IF obj = Null THEN PanicV
  ELSE IF IsSome(from_code(E, obj)) THEN from_code(E, obj) ELSE PanicV

\* Object::from_obj for &str: as_str().unwrap()
str_from_obj(obj) == IF obj = NullStr THEN PanicV ELSE Some(obj)

GlossLanguage_from_obj(obj) ==
  Bind(optional_enum(AllGlossLanguage, obj, "eng"), LAMBDA lang :
    IF IsPanic(lang) THEN PanicV
    ELSE Bind(try_from(GlossLanguage, lang.val), LAMBDA r :
           IF r.tag = "ok" THEN Some(r.val) ELSE NoneV))

PartOfSpeech_from_obj(obj) ==
  Bind(optional_enum(AllPartOfSpeech, obj, "eng"), LAMBDA lang :
    IF IsPanic(lang) THEN PanicV
    ELSE Bind(try_from(PartOfSpeech, lang.val), LAMBDA r :
           IF r.tag = "ok" THEN Some(r.val) ELSE NoneV))

RawLSource_from_obj(obj) ==
  LET type  == IF obj.type = Null THEN "full" ELSE obj.type
      wasei == IF obj.wasei = Null THEN "n" ELSE obj.wasei
  IN  IF type \notin {"full", "part"} THEN PanicV
      ELSE IF wasei \notin {"n", "y"} THEN PanicV
      ELSE IF obj.t = NullStr THEN PanicV
      ELSE Some([text |-> obj.t,
                 lang |-> IF obj.l = NullStr THEN <<101, 110, 103>> ELSE obj.l,
                 is_partial |-> type = "part",
                 is_wasei |-> wasei = "y"])

RawGloss_from_obj(obj) ==
  IF obj.t = NullStr THEN PanicV
  ELSE Bind(GlossLanguage_from_obj(obj.l), LAMBDA lang :
         IF ~IsSome(lang) THEN lang
         ELSE Bind(optional_enum(GlossType, obj.g_type, ""), LAMBDA g_type :
                IF IsPanic(g_type) THEN PanicV
                ELSE Some([text |-> obj.t, lang |-> lang.val,
                           g_type |-> g_type.val])))

\* Object::from_obj of the implementing type named by kind
RECURSIVE from_obj(_, _)

\* Object::collect: the items from_obj keeps, in order; a panic of any item
\* is a panic of the whole
collect(kind, array) ==
  LET parsed == [k \in DOMAIN array |-> from_obj(kind, array[k])]
      kept   == SelectSeq(parsed, IsSome)
  IN  IF \E k \in DOMAIN parsed : IsPanic(parsed[k]) THEN PanicV
      ELSE Some([k \in DOMAIN kept |-> kept[k].val])

\* a collect_or_none that passes an empty list on; C4_NonDegenerate tells it
\* from collect_or_none
collect_or_none_empty(kind, array) == collect(kind, array)

collect_or_none(kind, array) ==
  LET vec == collect(kind, array)
  IN  IF IsPanic(vec) THEN PanicV
      ELSE IF vec.val = <<>> THEN NoneV ELSE Some(vec.val)

\* a kanji element filter that looks at the info list instead of the marker
\* list; C8_UncommonFilter tells it from RawKanjiElement_from_obj
RawKanjiElement_from_obj_info(obj) ==
  IF ~opts.with_uncommon /\ obj.i = <<>> THEN NoneV
  ELSE IF obj.t = NullStr THEN PanicV
  ELSE Bind(collect("KanjiInfo", obj.i), LAMBDA ke_inf :
       Bind(parse_prio(obj.p), LAMBDA ke_pri :
         IF IsPanic(ke_inf) \/ IsPanic(ke_pri) THEN PanicV
         ELSE Some([keb |-> obj.t, ke_inf |-> ke_inf.val, ke_pri |-> ke_pri.val])))

RawKanjiElement_from_obj(obj) ==
  IF ~opts.with_uncommon /\ obj.p = <<>> THEN NoneV
  ELSE IF obj.t = NullStr THEN PanicV
  ELSE Bind(collect("KanjiInfo", obj.i), LAMBDA ke_inf :
       Bind(parse_prio(obj.p), LAMBDA ke_pri :
         IF IsPanic(ke_inf) \/ IsPanic(ke_pri) THEN PanicV
         ELSE Some([keb |-> obj.t, ke_inf |-> ke_inf.val, ke_pri |-> ke_pri.val])))

RawReadingElement_from_obj(obj) ==
  IF ~opts.with_uncommon /\ obj.p = <<>> THEN NoneV
  ELSE IF obj.t = NullStr THEN PanicV
  ELSE Bind(collect("str", obj.r), LAMBDA re_restr :
       Bind(collect("ReadingInfo", obj.i), LAMBDA re_inf :
       Bind(parse_prio(obj.p), LAMBDA re_pri :
         IF IsPanic(re_restr) \/ IsPanic(re_inf) \/ IsPanic(re_pri) THEN PanicV
         ELSE Some([reb |-> obj.t,
                    re_nokanji |-> obj.n,
                    re_restr |-> re_restr.val, re_inf |-> re_inf.val,
                    re_pri |-> re_pri.val]))))

RawSense_from_obj(obj) ==
  LET misc == collect("SenseInfo", obj.m)
  IN  IF IsPanic(misc) THEN PanicV
      ELSE IF ~opts.with_archaic /\ (\E k \in DOMAIN misc.val : misc.val[k] = "arch")
        THEN NoneV
      ELSE LET stagk   == collect("str", obj.stagk)
               stagr   == collect("str", obj.stagr)
               pos     == collect("PartOfSpeech", obj.p)
               xref    == collect("str", obj.xref)
               ant     == collect("str", obj.ant)
               field   == collect("SenseTopic", obj.f)
               s_inf   == collect("str", obj.i)
               lsource == collect("RawLSource", obj.L)
               dial    == collect("Dialect", obj.dial)
           IN  IF IsPanic(stagk) \/ IsPanic(stagr) \/ IsPanic(pos) \/ IsPanic(xref)
                  \/ IsPanic(ant) \/ IsPanic(field) \/ IsPanic(s_inf)
                  \/ IsPanic(lsource) \/ IsPanic(dial) THEN PanicV
               ELSE LET gloss == collect_or_none("RawGloss", obj.G)
                    IN  IF ~IsSome(gloss) THEN gloss
                        ELSE Some([stagk |-> stagk.val, stagr |-> stagr.val,
                                   pos |-> pos.val, xref |-> xref.val,
                                   ant |-> ant.val, field |-> field.val,
                                   misc |-> misc.val, s_inf |-> s_inf.val,
                                   lsource |-> lsource.val, dial |-> dial.val,
                                   gloss |-> gloss.val])

\* RawEntry::from_obj with a fallback at the level of the entry: a record that
\* loses all of its kanji elements is dropped
RawEntry_from_obj_fallback(obj) ==
  IF obj.n < 0 THEN PanicV
  ELSE LET k_ele == collect("RawKanjiElement", obj.K)
       IN  IF IsPanic(k_ele) THEN PanicV
           ELSE IF k_ele.val = <<>> /\ obj.K # <<>> THEN NoneV
           ELSE LET r_ele == collect_or_none("RawReadingElement", obj.R)
                IN  IF ~IsSome(r_ele) THEN r_ele
                    ELSE LET sense == collect_or_none("RawSense", obj.S)
                         IN  IF ~IsSome(sense) THEN sense
                             ELSE Some([ent_seq |-> obj.n, k_ele |-> k_ele.val,
                                        r_ele |-> r_ele.val, sense |-> sense.val])

RawEntry_from_obj(obj) ==
  IF obj.n < 0 THEN PanicV
  ELSE LET k_ele == collect("RawKanjiElement", obj.K)
       IN  IF IsPanic(k_ele) THEN PanicV
           ELSE LET r_ele == collect_or_none("RawReadingElement", obj.R)
                IN  IF ~IsSome(r_ele) THEN r_ele
                    ELSE LET sense == collect_or_none("RawSense", obj.S)
                         IN  IF ~IsSome(sense) THEN sense
                             ELSE Some([ent_seq |-> obj.n, k_ele |-> k_ele.val,
                                        r_ele |-> r_ele.val, sense |-> sense.val])

\* the impls of Object::from_obj, by implementing type
from_obj(kind, obj) ==
  CASE kind = "RawEntry"          -> RawEntry_from_obj(obj)
    [] kind = "RawKanjiElement"   -> RawKanjiElement_from_obj(obj)
    [] kind = "RawReadingElement" -> RawReadingElement_from_obj(obj)
    [] kind = "RawSense"          -> RawSense_from_obj(obj)
    [] kind = "RawLSource"        -> RawLSource_from_obj(obj)
    [] kind = "RawGloss"          -> RawGloss_from_obj(obj)
    [] kind = "str"               -> str_from_obj(obj)
    [] kind = "PartOfSpeech"      -> PartOfSpeech_from_obj(obj)
    [] kind = "Dialect"           -> required_enum(Dialect, obj)
    [] kind = "KanjiInfo"         -> required_enum(KanjiInfo, obj)
    [] kind = "ReadingInfo"       -> required_enum(ReadingInfo, obj)
    [] kind = "SenseInfo"         -> required_enum(SenseInfo, obj)
    [] kind = "SenseTopic"        -> required_enum(SenseTopic, obj)

----------------------------------------------------------------------------
(* Payload encoder (build.rs)                                              *)

EmptyOmni == [entry_offsets |-> <<>>, data |-> <<>>, text |-> <<>>]

StoredRef(start, end) == [start |-> start, end |-> end]

\* the StoredRef that push_str returns for a text of n bytes when the text
\* pool holds len bytes
push_str_ref(len, n) ==
  IF n = 0 THEN StoredRef(0, 0) ELSE StoredRef(len, len + n)

push_str(o, text) ==
  IF text = <<>> THEN [omni |-> o, r |-> push_str_ref(Len(o.text), 0)]
  ELSE [omni |-> [o EXCEPT !.text = @ \o text],
        r |-> push_str_ref(Len(o.text), Len(text))]

\* a push_data that puts the words in front of the pool
push_data_front(o, data) ==
  IF data = <<>> THEN [omni |-> o, r |-> StoredRef(0, 0)]
  ELSE [omni |-> [o EXCEPT !.data = data \o @], r |-> StoredRef(0, Len(data))]

push_data(o, data) ==
  IF data = <<>> THEN [omni |-> o, r |-> StoredRef(0, 0)]
  ELSE LET start == Len(o.data)
       IN  [omni |-> [o EXCEPT !.data = @ \o data],
            r |-> StoredRef(start, start + Len(data))]

EnumKinds ==
  {"KanjiInfo", "ReadingInfo", "PartOfSpeech", "SenseTopic", "SenseInfo", "Dialect"}

EnumOf(kind) ==
  CASE kind = "KanjiInfo"    -> KanjiInfo
    [] kind = "ReadingInfo"  -> ReadingInfo
    [] kind = "PartOfSpeech" -> PartOfSpeech
    [] kind = "SenseTopic"   -> SenseTopic
    [] kind = "SenseInfo"    -> SenseInfo
    [] kind = "Dialect"      -> Dialect

\* ToPayload::encode_one of the implementing type named by kind
RECURSIVE encode_one(_, _, _)

\* the loop shared by both push_array functions: every item rendered into
\* its slice of repr, in order, each item seeing the pools as the items
\* before it left them (the slice is walked by halves, left half first)
RECURSIVE encode_items(_, _, _)
encode_items(kind, o, data) ==
  IF data = <<>> THEN [omni |-> o, repr |-> <<>>]
  ELSE IF Len(data) = 1
    THEN Strict(encode_one(kind, data[1], o), LAMBDA h :
           [omni |-> h.omni, repr |-> h.buf])
  ELSE Strict(encode_items(kind, o, SubSeq(data, 1, Len(data) \div 2)), LAMBDA l :
       Strict(encode_items(kind, l.omni, SubSeq(data, (Len(data) \div 2) + 1, Len(data))),
            LAMBDA r : [omni |-> r.omni, repr |-> l.repr \o r.repr]))

\* an OmniBuffer::push_array that puts the block of the items in front of the
\* words that the items intern
OmniBuffer_push_array_early(kind, o, data) ==
  IF data = <<>> THEN [omni |-> o, r |-> StoredRef(0, 0)]
  ELSE LET e == encode_items(kind, o, data)
           interned == SubSeq(e.omni.data, Len(o.data) + 1, Len(e.omni.data))
       IN  [omni |-> [e.omni EXCEPT !.data = o.data \o e.repr \o interned],
            r |-> StoredRef(Len(o.data), Len(o.data) + Len(e.repr))]

\* OmniBuffer::push_array
OmniBuffer_push_array(kind, o, data) ==
  IF data = <<>> THEN [omni |-> o, r |-> StoredRef(0, 0)]
  ELSE LET e == encode_items(kind, o, data)
       IN  push_data(e.omni, e.repr)

\* fn push_array, on the pair of buffers it mutates: st.buf is the caller's
\* Vec<u32> and st.omni the OmniBuffer; the u32 it returns (buf.len() once
\* the items are appended; a Vec the model can hold is far shorter than 2^32)
\* is appended to st.offs
push_array(kind, st, array) ==
  IF array # <<>>
    THEN LET e == encode_items(kind, st.omni, array)
         IN  [buf  |-> st.buf \o e.repr, omni |-> e.omni,
              offs |-> Append(st.offs, Len(st.buf) + Len(e.repr))]
    ELSE [st EXCEPT !.offs = Append(@, Len(st.buf))]

\* let mut buf = vec![]; before the first push_array of an encode_one
NewBuf(o) == [buf |-> <<>>, omni |-> o, offs |-> <<>>]

\* enum_to_payload!
enum_encode_one(kind, self, o) ==
  [omni |-> o, buf |-> << W(to_u32(EnumOf(kind), self)) >>]

str_encode_one(self, o) ==
  LET t == push_str(o, self)
  IN  [omni |-> t.omni, buf |-> << W(t.r.start), W(t.r.end) >>]

\* the four words of a loanword source whose strings were interned at rt and
\* rl, with one flag bit for both flags (0x10000000)
RawLSource_words_shared(rt, rl, is_partial, is_wasei) ==
  LET b0 == W(rt.start)
      b1 == IF is_partial \/ is_wasei THEN BitOr32(b0, <<4096, 0>>) ELSE b0
  IN  << b1, W(rt.end), W(rl.start), W(rl.end) >>

\* the four words of a loanword source whose strings were interned at rt and
\* rl: is_partial is bit 28 (0x10000000), is_wasei bit 29 (0x20000000) of word 0
RawLSource_words(rt, rl, is_partial, is_wasei) ==
  LET b0 == W(rt.start)
      b1 == IF is_partial THEN BitOr32(b0, <<4096, 0>>) ELSE b0
      b2 == IF is_wasei THEN BitOr32(b1, <<8192, 0>>) ELSE b1
  IN  << b2, W(rt.end), W(rl.start), W(rl.end) >>

RawLSource_encode_one(self, o) ==
  LET t  == push_str(o, self.text)
      l  == push_str(t.omni, self.lang)
  IN  [omni |-> l.omni,
       buf |-> RawLSource_words(t.r, l.r, self.is_partial, self.is_wasei)]

\* the two words of a gloss whose text was interned at r: the ordinals of the
\* language and of the gloss type are shifted into bits 28..31
RawGloss_words(r, lang, g_type) ==
  << BitOr32(W(r.start), Shl32(to_u32(GlossLanguage, lang), 28)),
     BitOr32(W(r.end), Shl32(to_u32(GlossType, g_type), 28)) >>

RawGloss_encode_one(self, o) ==
  LET t == push_str(o, self.text)
  IN  [omni |-> t.omni, buf |-> RawGloss_words(t.r, self.lang, self.g_type)]

\* an encoder of kanji elements that leaves the priority word 0
RawKanjiElement_encode_one_nopri(self, o) ==
  LET s == push_str(o, self.keb)
      a == OmniBuffer_push_array("KanjiInfo", s.omni, self.ke_inf)
  IN  [omni |-> a.omni,
       buf |-> << W(0), W(s.r.start), W(s.r.end), W(a.r.start), W(a.r.end) >>]

RawKanjiElement_encode_one(self, o) ==
  LET s == push_str(o, self.keb)
      a == OmniBuffer_push_array("KanjiInfo", s.omni, self.ke_inf)
  IN  [omni |-> a.omni,
       buf |-> << W(priority_to_u32(self.ke_pri)), W(s.r.start), W(s.r.end),
                  W(a.r.start), W(a.r.end) >>]

RawReadingElement_encode_one(self, o) ==
  LET s == push_str(o, self.reb)
      a == OmniBuffer_push_array("ReadingInfo", s.omni, self.re_inf)
  IN  [omni |-> a.omni,
       buf |-> << W(priority_to_u32(self.re_pri)), W(s.r.start), W(s.r.end),
                  W(a.r.start), W(a.r.end) >>]

\* the tail of RawSense::encode_one: push_data of the buffer and the five
\* words, the ten offsets packed by + and <<
RawSense_words(st, r) ==
  [omni |-> r.omni,
   buf |-> << W(r.r.start), W(r.r.end),
              Add32(Add32(Add32(W(st.offs[1]), Shl32(st.offs[2], 8)),
                          Shl32(st.offs[3], 16)), Shl32(st.offs[4], 24)),
              Add32(Add32(Add32(W(st.offs[5]), Shl32(st.offs[6], 8)),
                          Shl32(st.offs[7], 16)), Shl32(st.offs[8], 24)),
              Add32(W(st.offs[9]), Shl32(st.offs[10], 8)) >>]

RawSense_encode_one(self, o) ==
  LET a1  == push_array("str", NewBuf(o), self.stagk)
      a2  == push_array("str", a1, self.stagr)
      a3  == push_array("PartOfSpeech", a2, self.pos)
      a4  == push_array("str", a3, self.xref)
      a5  == push_array("str", a4, self.ant)
      a6  == push_array("SenseTopic", a5, self.field)
      a7  == push_array("SenseInfo", a6, self.misc)
      a8  == push_array("str", a7, self.s_inf)
      a9  == push_array("RawLSource", a8, self.lsource)
      a10 == push_array("Dialect", a9, self.dial)
      a11 == push_array("RawGloss", a10, self.gloss)
  IN  RawSense_words(a11, push_data(a11.omni, a11.buf))

\* the tail of RawEntry::encode_one
\* the header words of an entry with the second offset counted from the first
RawEntry_words_relative(st, r, ent_seq) ==
  [omni |-> r.omni,
   buf |-> << W(r.r.start), W(r.r.end),
              Add32(W(st.offs[1]), Shl32(st.offs[2] - st.offs[1], 16)),
              W(ent_seq) >>]

RawEntry_words(st, r, ent_seq) ==
  [omni |-> r.omni,
   buf |-> << W(r.r.start), W(r.r.end),
              Add32(W(st.offs[1]), Shl32(st.offs[2], 16)),
              W(ent_seq) >>]

RawEntry_encode_one(self, o) ==
  LET a1 == push_array("RawKanjiElement", NewBuf(o), self.k_ele)
      a2 == push_array("RawReadingElement", a1, self.r_ele)
      a3 == push_array("RawSense", a2, self.sense)
  IN  RawEntry_words(a3, push_data(a3.omni, a3.buf), self.ent_seq)

encode_one(kind, self, o) ==
  CASE kind = "RawEntry"          -> RawEntry_encode_one(self, o)
    [] kind = "RawKanjiElement"   -> RawKanjiElement_encode_one(self, o)
    [] kind = "RawReadingElement" -> RawReadingElement_encode_one(self, o)
    [] kind = "RawSense"          -> RawSense_encode_one(self, o)
    [] kind = "RawLSource"        -> RawLSource_encode_one(self, o)
    [] kind = "RawGloss"          -> RawGloss_encode_one(self, o)
    [] kind = "str"               -> str_encode_one(self, o)
    [] kind \in EnumKinds         -> enum_encode_one(kind, self, o)

\* a process_entry that puts the offset at the front of the table;
\* C3_Ordering tells it from process_entry
process_entry_front(o, entry) ==
  Bind(encode_one("RawEntry", entry, o), LAMBDA e :
    Bind(push_data(e.omni, e.buf), LAMBDA p :
      [p.omni EXCEPT !.entry_offsets = << W(p.r.start) >> \o @]))

\* a process_entry that records the line count of the traversal with the offset
process_entry_counted(o, entry) ==
  Bind(encode_one("RawEntry", entry, o), LAMBDA e :
    Bind(push_data(e.omni, e.buf), LAMBDA p :
      [p.omni EXCEPT !.entry_offsets = Append(@, W(p.r.start + consumed))]))

\* Visitor::process_entry of OmniBuffer
process_entry(o, entry) ==
  Bind(encode_one("RawEntry", entry, o), LAMBDA e :
    Bind(push_data(e.omni, e.buf), LAMBDA p :
      [p.omni EXCEPT !.entry_offsets = Append(@, W(p.r.start))]))

----------------------------------------------------------------------------
(* The three artifacts: written by main() of build.rs, embedded by         *)
(* src/payload.rs.  Both sides use the native byte order of one machine,   *)
(* taken here to be little-endian.                                         *)

NoFiles == [entry_offsets |-> <<>>, payload |-> <<>>, strings |-> <<>>, written |-> FALSE]

\* u32::to_ne_bytes
to_ne_bytes(w) == << w[2] % 256, w[2] \div 256, w[1] % 256, w[1] \div 256 >>

\* write_u32s: the bytes of every value, in order
write_u32s(vals) ==
  [k \in 1..(4 * Len(vals)) |-> to_ne_bytes(vals[((k - 1) \div 4) + 1])[((k - 1) % 4) + 1]]

\* as_u32_slice: input.len() / 4 words, word i read from bytes 4i .. 4i+3
slice_len(input) == Len(input) \div 4
slice_at(input, i) ==
  << input[4 * i + 4] * 256 + input[4 * i + 3], input[4 * i + 2] * 256 + input[4 * i + 1] >>

entry_count == slice_len(files.entry_offsets)
ALL_DATA_len == slice_len(files.payload)
ALL_DATA(i) == slice_at(files.payload, i)
ALL_ENTRY_OFFSETS(i) == slice_at(files.entry_offsets, i)
ALL_TEXTS == files.strings

----------------------------------------------------------------------------
(* Zero-copy reader (src/payload.rs, src/lib.rs)                           *)

PanicStr == <<-2>>      \* a string slice that panicked

\* Range::new for items of type kind, N words each
Range(kind, N, start, end) == [kind |-> kind, N |-> N, start |-> start, end |-> end]

\* ExactSizeIterator::len of Range
Range_len(r) == (r.end - r.start) \div r.N

get_str(start, end) ==
  IF start <= end /\ end <= Len(ALL_TEXTS)
    THEN SubSeq(ALL_TEXTS, start + 1, end) ELSE PanicStr

enum_get(E, data) == from_u32(E, V(data[1]))

KanjiElement_get(data) ==
  [priority |-> priority_from_u32(V(data[1])),
   text |-> get_str(V(data[2]), V(data[3])),
   info_iter |-> Range("KanjiInfo", 1, V(data[4]), V(data[5]))]

ReadingElement_get(data) ==
  [priority |-> priority_from_u32(V(data[1])),
   text |-> get_str(V(data[2]), V(data[3])),
   info_iter |-> Range("ReadingInfo", 1, V(data[4]), V(data[5]))]

Sense_get(data) ==
  LET start == V(data[1])
      end   == V(data[2])
      mid1  == start + (data[3][2] % 256)
      mid2  == start + (data[3][2] \div 256)
      mid3  == start + (data[3][1] % 256)
      mid4  == start + (data[3][1] \div 256)
      mid5  == start + (data[4][2] % 256)
      mid6  == start + (data[4][2] \div 256)
      mid7  == start + (data[4][1] % 256)
      mid8  == start + (data[4][1] \div 256)
      mid9  == start + (data[5][2] % 256)
      mid10 == start + (data[5][2] \div 256)
  IN  [stagk_iter            |-> Range("str", 2, start, mid1),
       stagr_iter            |-> Range("str", 2, mid1, mid2),
       pos_iter              |-> Range("PartOfSpeech", 1, mid2, mid3),
       cross_refs_iter       |-> Range("str", 2, mid3, mid4),
       antonyms_iter         |-> Range("str", 2, mid4, mid5),
       topics_iter           |-> Range("SenseTopic", 1, mid5, mid6),
       info_iter             |-> Range("SenseInfo", 1, mid6, mid7),
       freetext_info_iter    |-> Range("str", 2, mid7, mid8),
       loanword_sources_iter |-> Range("LoanwordSource", 4, mid8, mid9),
       dialects_iter         |-> Range("Dialect", 1, mid9, mid10),
       glosses_iter          |-> Range("Gloss", 2, mid10, end)]

\* the fields of the four words of a loanword source: word 0 is masked with
\* 0x0FFFFFFF for the start of the text and tested against 0x10000000 and
\* 0x20000000 for the flags
LoanwordSource_unpack(data) ==
  [start |-> (data[1][1] % 4096) * Half + data[1][2],
   end |-> V(data[2]),
   lang_start |-> V(data[3]),
   lang_end |-> V(data[4]),
   is_partial |-> (data[1][1] \div 4096) % 2 = 1,
   is_wasei |-> (data[1][1] \div 8192) % 2 = 1]

LoanwordSource_get(data) ==
  [text |-> get_str(LoanwordSource_unpack(data).start, LoanwordSource_unpack(data).end),
   language |-> get_str(LoanwordSource_unpack(data).lang_start,
                        LoanwordSource_unpack(data).lang_end),
   is_partial |-> LoanwordSource_unpack(data).is_partial,
   is_wasei |-> LoanwordSource_unpack(data).is_wasei]

\* the fields of the two words of a gloss: both words are masked with
\* 0x0FFFFFFF for the text range and hold an ordinal in the bits
\* above (& 0xF0000000) >> 28
Gloss_unpack(data) ==
  [start |-> (data[1][1] % 4096) * Half + data[1][2],
   end |-> (data[2][1] % 4096) * Half + data[2][2],
   lang_code |-> data[1][1] \div 4096,
   type_code |-> data[2][1] \div 4096]

Gloss_get(data) ==
  [text |-> get_str(Gloss_unpack(data).start, Gloss_unpack(data).end),
   language |-> from_u32(GlossLanguage, Gloss_unpack(data).lang_code),
   gloss_type |-> from_u32(GlossType, Gloss_unpack(data).type_code)]

str_get(data) == get_str(V(data[1]), V(data[2]))

\* the impls of FromPayload::get, by implementing type
get(kind, data) ==
  CASE kind \in EnumKinds        -> enum_get(EnumOf(kind), data)
    [] kind = "KanjiElement"     -> KanjiElement_get(data)
    [] kind = "ReadingElement"   -> ReadingElement_get(data)
    [] kind = "Sense"            -> Sense_get(data)
    [] kind = "LoanwordSource"   -> LoanwordSource_get(data)
    [] kind = "Gloss"            -> Gloss_get(data)
    [] kind = "str"              -> str_get(data)

\* Iterator::next of Range: the item and the advanced iterator, None at the
\* end, a panic when the N words are not all inside ALL_DATA
Range_next(r) ==
  IF r.start < r.end
    THEN IF r.start + r.N <= ALL_DATA_len
           THEN [tag |-> "some",
                 val |-> get(r.kind, [k \in 1..r.N |-> ALL_DATA(r.start + k - 1)]),
                 iter |-> [r EXCEPT !.start = @ + r.N]]
           ELSE PanicV
    ELSE NoneV

get_entry(idx) ==
  IF idx >= entry_count THEN PanicV
  ELSE LET offset == V(ALL_ENTRY_OFFSETS(idx))
       IN  IF offset + 4 > ALL_DATA_len THEN PanicV
           ELSE LET start == V(ALL_DATA(offset))
                    end   == V(ALL_DATA(offset + 1))
                    mid1  == start + ALL_DATA(offset + 2)[2]
                    mid2  == start + ALL_DATA(offset + 2)[1]
                IN  Some([number |-> V(ALL_DATA(offset + 3)),
                          kanji_elements_iter   |-> Range("KanjiElement", 5, start, mid1),
                          reading_elements_iter |-> Range("ReadingElement", 5, mid1, mid2),
                          senses_iter           |-> Range("Sense", 5, mid2, end)])

\* an iterator that stops one entry early; C2_OnePerRetained tells it from
\* Entries_new
Entries_new_short == [start |-> 0, end |-> entry_count - 1]

\* Entries::new and Iterator::next of Entries
Entries_new == [start |-> 0, end |-> entry_count]

\* an Entries::next that takes its position from the furthest Entries of any reader
Entries_next_shared(e) ==
  IF e.start < e.end
    THEN LET at    == CHOOSE a \in 0..e.end :
                        /\ a >= e.start
                        /\ \A r \in DOMAIN readers :
                             readers[r].status = "open" /\ readers[r].iter.kind = "Entry"
                               => a >= readers[r].iter.start
                        /\ \/ a = e.start
                           \/ \E r \in DOMAIN readers :
                                /\ readers[r].status = "open"
                                /\ readers[r].iter.kind = "Entry"
                                /\ a = readers[r].iter.start
             entry == get_entry(at)
         IN  IF IsPanic(entry) THEN PanicV
             ELSE [tag |-> "some", val |-> entry.val, iter |-> [e EXCEPT !.start = at + 1]]
    ELSE NoneV

Entries_next(e) ==
  IF e.start < e.end
    THEN LET entry == get_entry(e.start)
         IN  IF IsPanic(entry) THEN PanicV
             ELSE [tag |-> "some", val |-> entry.val, iter |-> [e EXCEPT !.start = @ + 1]]
    ELSE NoneV

Entries_len(e) == e.end - e.start

----------------------------------------------------------------------------
(* check_consistency (src/test_consistency.rs): the Check impls            *)

\* the Range after k calls of next() that returned an item
Range_after(r, k) == [r EXCEPT !.start = @ + k * r.N]

\* the calls of next() a loop over the Range makes before it returns None
Range_calls(r) ==
  IF r.start < r.end THEN (r.end - r.start + r.N - 1) \div r.N ELSE 0

\* every item a Range yields, in order: next() at each cursor position up to
\* the first that panics; ok is FALSE when one panicked
items(r) ==
  Bind([k \in 1..Range_calls(r) |-> Range_next(Range_after(r, k - 1))], LAMBDA ns :
    Bind({k \in DOMAIN ns : IsPanic(ns[k])}, LAMBDA bad :
      [ok  |-> bad = {},
       val |-> [k \in {j \in DOMAIN ns : \A b \in bad : j < b} |-> ns[k].val]]))

\* Check::check of the implementing type named by kind
RECURSIVE check(_, _, _)

\* check_vec: equal lengths, then the items pairwise
check_vec(kind, expected, actual) ==
  /\ Len(expected) = Range_len(actual)
  /\ Bind(items(actual), LAMBDA got :
       /\ got.ok
       /\ \A k \in DOMAIN expected :
            k \in DOMAIN got.val => check(kind, expected[k], got.val[k]))

\* the blanket impl of Check: assert_eq!
check_enum(expected, actual) == Some(expected) = actual
check_str(expected, actual)  == expected = actual

check_LoanwordSource(expected, actual) ==
  /\ expected.lang = actual.language
  /\ expected.text = actual.text
  /\ expected.is_partial = actual.is_partial
  /\ expected.is_wasei = actual.is_wasei

check_Gloss(expected, actual) ==
  /\ Some(expected.lang) = actual.language
  /\ expected.text = actual.text
  /\ Some(expected.g_type) = actual.gloss_type

check_KanjiElement(expected, actual) ==
  /\ expected.keb = actual.text
  /\ check_vec("enum", expected.ke_inf, actual.info_iter)

check_ReadingElement(expected, actual) ==
  /\ expected.reb = actual.text
  /\ check_vec("enum", expected.re_inf, actual.info_iter)

check_Sense(expected, actual) ==
  /\ check_vec("str", expected.stagk, actual.stagk_iter)
  /\ check_vec("str", expected.stagr, actual.stagr_iter)
  /\ check_vec("enum", expected.pos, actual.pos_iter)
  /\ check_vec("str", expected.xref, actual.cross_refs_iter)
  /\ check_vec("str", expected.ant, actual.antonyms_iter)
  /\ check_vec("enum", expected.field, actual.topics_iter)
  /\ check_vec("enum", expected.misc, actual.info_iter)
  /\ check_vec("str", expected.s_inf, actual.freetext_info_iter)
  /\ check_vec("LoanwordSource", expected.lsource, actual.loanword_sources_iter)
  /\ check_vec("enum", expected.dial, actual.dialects_iter)
  /\ check_vec("Gloss", expected.gloss, actual.glosses_iter)

check_Entry(expected, actual) ==
  /\ check_vec("KanjiElement", expected.k_ele, actual.kanji_elements_iter)
  /\ check_vec("ReadingElement", expected.r_ele, actual.reading_elements_iter)
  /\ check_vec("Sense", expected.sense, actual.senses_iter)

check(kind, expected, actual) ==
  CASE kind = "Entry"          -> check_Entry(expected, actual)
    [] kind = "KanjiElement"   -> check_KanjiElement(expected, actual)
    [] kind = "ReadingElement" -> check_ReadingElement(expected, actual)
    [] kind = "Sense"          -> check_Sense(expected, actual)
    [] kind = "LoanwordSource" -> check_LoanwordSource(expected, actual)
    [] kind = "Gloss"          -> check_Gloss(expected, actual)
    [] kind = "str"            -> check_str(expected, actual)
    [] kind = "enum"           -> check_enum(expected, actual)

----------------------------------------------------------------------------
(* Inputs: JSON objects of the entry pack                                  *)

MaxRecords == 3     \* lines of an entry pack of the sequence specification

TruncateCutoff == 1010000

\* sequence numbers on both sides of the db-minimal cutoff
SeqNumbers == {1, TruncateCutoff - 10, TruncateCutoff, TruncateCutoff + 10}

nf18  == <<"n", "f", "1", "8">>
nf05  == <<"n", "f", "0", "5">>
nf00  == <<"n", "f", "0", "0">>

K_common      == [t |-> <<97>>, i |-> <<"iK", "ateji">>, p |-> <<news2, nf18, news1>>]
K_uncommon    == [t |-> <<98, 99>>, i |-> <<"oK">>, p |-> <<>>]
K_unc_badinfo == [t |-> <<98>>, i |-> <<"??">>, p |-> <<>>]
K_badinfo     == [t |-> <<97>>, i |-> <<"??">>, p |-> <<ichi2>>]
K_badprio     == [t |-> <<97>>, i |-> <<>>, p |-> <<spec1, nf00>>]

R_common      == [t |-> <<100>>, i |-> <<>>, p |-> <<ichi1>>, n |-> FALSE, r |-> <<>>]
R_common2     == [t |-> <<>>, i |-> <<"ok", "gikun">>, p |-> <<gai2, nf05>>,
                  n |-> FALSE, r |-> <<>>]
R_uncommon    == [t |-> <<101, 102>>, i |-> <<"ik">>, p |-> <<>>, n |-> TRUE,
                  r |-> << <<97>> >>]
R_unc_badinfo == [t |-> <<101>>, i |-> <<"??">>, p |-> <<>>, n |-> FALSE, r |-> <<>>]
R_badprio     == [t |-> <<100>>, i |-> <<>>, p |-> << <<"x">> >>, n |-> FALSE, r |-> <<>>]

G_eng         == [t |-> <<109>>, l |-> Null, g_type |-> Null]
G_ger         == [t |-> <<110, 111>>, l |-> "ger", g_type |-> "expl"]
G_dut_empty   == [t |-> <<>>, l |-> "dut", g_type |-> "tm"]
G_swe         == [t |-> <<112>>, l |-> "swe", g_type |-> "lit"]
G_badlang     == [t |-> <<109>>, l |-> "xx", g_type |-> Null]
G_ger_badtype == [t |-> <<110>>, l |-> "ger", g_type |-> "??"]

L_full        == [t |-> <<>>, l |-> NullStr, type |-> Null, wasei |-> Null]
L_part        == [t |-> <<113>>, l |-> <<102, 114>>, type |-> "part", wasei |-> "n"]
L_wasei       == [t |-> <<114, 115>>, l |-> NullStr, type |-> "full", wasei |-> "y"]
L_part_wasei  == [t |-> <<113>>, l |-> <<>>, type |-> "part", wasei |-> "y"]
L_badtype     == [t |-> <<113>>, l |-> NullStr, type |-> "half", wasei |-> Null]
L_badwasei    == [t |-> <<113>>, l |-> NullStr, type |-> Null, wasei |-> "maybe"]

S_plain ==
  [stagk |-> <<>>, stagr |-> <<>>, p |-> <<>>, xref |-> <<>>, ant |-> <<>>,
   f |-> <<>>, m |-> <<>>, i |-> <<>>, L |-> <<>>, dial |-> <<>>, G |-> <<G_eng>>]
S_rich ==
  [stagk |-> << <<97>> >>, stagr |-> << <<101, 102>>, <<100>> >>,
   p |-> <<"adj-na", "adj-kari", "adj-i">>, xref |-> << <<98, 99>> >>,
   ant |-> << <<>>, <<97>> >>, f |-> <<"MA", "Buddh">>, m |-> <<"abbr", "X">>,
   i |-> << <<116>> >>, L |-> <<L_part, L_full, L_wasei, L_part_wasei>>,
   dial |-> <<"ksb", "bra">>, G |-> <<G_ger, G_eng, G_swe, G_dut_empty>>]
S_archaic      == [S_plain EXCEPT !.m = <<"abbr", "arch">>, !.G = <<G_eng, G_ger>>]
S_arch_badpos  == [S_plain EXCEPT !.m = <<"arch">>, !.p = <<"??">>]
S_arch_baddial == [S_plain EXCEPT !.m = <<"arch">>, !.dial = <<"??">>, !.G = <<G_ger>>]
S_badmisc      == [S_plain EXCEPT !.m = <<"arch", "??">>]
S_badpos       == [S_plain EXCEPT !.p = <<"adj-i", "??">>]
S_nullpos      == [S_plain EXCEPT !.p = <<Null>>]
S_badfield     == [S_plain EXCEPT !.f = <<"??">>]
S_ger          == [S_plain EXCEPT !.G = <<G_ger>>, !.p = <<"adj-kari">>]
S_mixed        == [S_plain EXCEPT !.G = <<G_dut_empty, G_eng, G_ger>>]
S_nogloss      == [S_plain EXCEPT !.G = <<>>]
S_badlang      == [S_plain EXCEPT !.G = <<G_eng, G_badlang>>]
S_hid_badtype  == [S_plain EXCEPT !.G = <<G_eng, G_ger_badtype>>]
S_badls        == [S_plain EXCEPT !.L = <<L_part, L_badtype>>]
S_badwasei     == [S_plain EXCEPT !.L = <<L_badwasei>>]
\* 64 loanword sources of 4 words each: the cumulative offset after them is
\* 256, one more than an 8-bit split field holds
S_long         == [S_plain EXCEPT !.L = [k \in 1..64 |-> L_full]]
\* all eleven lists filled, 64 loanword sources among them
S_rich_long    == [S_rich EXCEPT !.L = [k \in 1..64 |-> L_full]]

\* one line of the entry pack
Rec(n, K, R, S) == [n |-> n, K |-> K, R |-> R, S |-> S]

\* the lists one record of the single-record specification is assembled from
KChoices ==
  { <<>>, <<K_common>>, <<K_uncommon, K_common>>, <<K_unc_badinfo>>, <<K_badinfo>>,
    <<K_common, K_badprio>> }
RChoices ==
  { <<>>, <<R_common>>, <<R_uncommon>>, <<R_uncommon, R_common2>>,
    <<R_unc_badinfo, R_common>>, <<R_badprio>> }
SChoices ==
  { <<>>, <<S_plain>>, <<S_rich>>, <<S_archaic>>, <<S_archaic, S_plain>>,
    <<S_arch_badpos, S_ger>>, <<S_arch_baddial>>, <<S_badmisc>>, <<S_badpos>>,
    <<S_nullpos>>, <<S_badfield>>, <<S_ger>>, <<S_mixed, S_ger>>, <<S_nogloss, S_plain>>,
    <<S_nogloss>>, <<S_badlang>>, <<S_hid_badtype>>, <<S_badls>>, <<S_badwasei>> }

RichRecords ==
  { Rec(n, K, R, S) : n \in {TruncateCutoff - 10, TruncateCutoff},
                      K \in KChoices, R \in RChoices, S \in SChoices }

\* the record shapes the lines of the sequence specification are drawn from
Shapes ==
  { [K |-> <<>>, R |-> <<R_common>>, S |-> <<S_plain>>],
    [K |-> <<K_common, K_uncommon>>, R |-> <<R_uncommon, R_common2>>,
     S |-> <<S_rich, S_archaic>>],
    [K |-> <<K_common>>, R |-> <<R_uncommon>>, S |-> <<S_ger>>],
    [K |-> <<K_unc_badinfo>>, R |-> <<R_common>>,
     S |-> <<S_arch_badpos, S_plain, S_long>>] }

\* entry packs of at most n lines, ascending by sequence number
RECURSIVE Packs(_)
Packs(n) ==
  IF n = 0 THEN { <<>> }
  ELSE LET shorter == Packs(n - 1)
       IN  shorter \cup
           { Append(c, Rec(q, sh.K, sh.R, sh.S)) :
               c \in {d \in shorter : Len(d) = n - 1},
               q \in SeqNumbers, sh \in Shapes } 

Ascending(c) == \A k \in 1..(Len(c) - 1) : c[k].n < c[k + 1].n

SequencePacks == {c \in Packs(MaxRecords) : Ascending(c)}

\* the feature selections of a build: at least one target language
LanguageSelections ==
  { {"translations-eng"}, {"translations-dut", "translations-ger"} }

FeatureSets ==
  { l \cup s : l \in LanguageSelections,
               s \in SUBSET {"scope-uncommon", "scope-archaic", "db-minimal"} }
  \cup
  { l \cup s \cup {"db-empty"} :
      l \in LanguageSelections,
      s \in { {}, {"scope-uncommon", "scope-archaic", "db-minimal"} } }

MaxMarkers == 3     \* markers of one element in the marker-merge specification

MarkerTokens == {news1, news2, ichi1, ichi2, gai1, gai2, spec1, spec2, nf18, nf05, nf00}

MarkerLists == UNION { [1..k -> MarkerTokens] : k \in 0..MaxMarkers }


MaxTokenLen == 5    \* characters of a token in the single-token specification

\* the characters the tokens of the single-token specification are made of
TokenAlphabet == {"n", "f", "0", "1", "4", "8", "9"}

\* the eight tier markers and every string of at most MaxTokenLen characters
Tokens ==
  {news1, news2, ichi1, ichi2, gai1, gai2, spec1, spec2}
    \cup UNION { [1..k -> TokenAlphabet] : k \in 0..MaxTokenLen }

----------------------------------------------------------------------------
(* The state machine                                                       *)

NoIter == [tag |-> "none"]
NoChk  == [status |-> "idle", iter |-> NoIter, line |-> 0]
NoPrio == [markers |-> <<>>, idx |-> 0, result |-> NoPriority, status |-> "idle"]
NoConv == [enum |-> "none", value |-> "", status |-> "idle", narrowed |-> NoneV, widened |-> Null]
NoReaders == <<>>      \* no reader thread
NoRerun == [omni |-> EmptyOmni, fed |-> 0]
NoPack == [status |-> "idle"]     \* no header word under study

Entries(e, returnedNone) ==
  [tag |-> "iter", start |-> e.start, end |-> e.end, ended |-> returnedNone]

\* main() of build.rs up to the db-empty test
StartBuild ==
  /\ pc = "main"
  /\ pc' = IF "db-empty" \notin features THEN "traverse" ELSE "traversed"
  /\ UNCHANGED <<features, contents, consumed, omni, handed, files, it, yielded, chk, prio,
               conv, readers, rerun, pack>>

\* one iteration of the loop of process_dictionary, the visitor being the OmniBuffer
ProcessLine ==
  /\ pc = "traverse"
  /\ consumed < Len(contents)
  /\ consumed' = consumed + 1
  /\ Bind(from_obj("RawEntry", contents[consumed + 1]), LAMBDA entry_raw :
       IF IsPanic(entry_raw)
         THEN pc' = "panicked" /\ UNCHANGED <<omni, handed>>
       ELSE IF IsNone(entry_raw)
         THEN UNCHANGED <<pc, omni, handed>>
       ELSE IF opts.is_db_minimal /\ entry_raw.val.ent_seq >= TruncateCutoff
         THEN pc' = "traversed" /\ UNCHANGED <<omni, handed>>
       ELSE /\ omni' = process_entry(omni, entry_raw.val)
            /\ handed' = Append(handed, entry_raw.val)
            /\ UNCHANGED pc)
  /\ UNCHANGED <<features, contents, files, it, yielded, chk, prio,
               conv, readers, rerun, pack>>

\* the loop of process_dictionary runs out of lines
EndOfPack ==
  /\ pc = "traverse"
  /\ consumed = Len(contents)
  /\ pc' = "traversed"
  /\ UNCHANGED <<features, contents, consumed, omni, handed, files, it, yielded, chk, prio,
               conv, readers, rerun, pack>>

\* the tail of main(): the three artifacts are written
WriteFiles ==
  /\ pc = "traversed"
  /\ files' = [entry_offsets |-> write_u32s(omni.entry_offsets),
               payload |-> write_u32s(omni.data),
               strings |-> omni.text,
               written |-> TRUE]
  /\ pc' = "written"
  /\ UNCHANGED <<features, contents, consumed, omni, handed, it, yielded, chk, prio,
               conv, readers, rerun, pack>>

\* entries() of src/lib.rs
EntriesCall ==
  /\ pc = "written"
  /\ it = NoIter
  /\ chk = NoChk
  /\ it' = Entries(Entries_new, FALSE)
  /\ UNCHANGED <<features, contents, consumed, omni, handed, pc, files, yielded, chk, prio,
               conv, readers, rerun, pack>>

\* Iterator::next of Entries, until it has returned None
EntriesNext ==
  /\ it.tag = "iter"
  /\ ~it.ended
  /\ Bind(Entries_next(it), LAMBDA n :
       IF IsSome(n)
         THEN it' = Entries(n.iter, FALSE) /\ yielded' = Append(yielded, n.val)
         ELSE it' = Entries(it, TRUE) /\ UNCHANGED yielded)
  /\ UNCHANGED <<features, contents, consumed, omni, handed, pc, files, chk, prio,
               conv, readers, rerun, pack>>

\* check_consistency: the visitor is built around entries()
CheckStart ==
  /\ pc = "written"
  /\ it = NoIter
  /\ chk = NoChk
  /\ chk' = [status |-> "running", iter |-> Entries(Entries_new, FALSE), line |-> 0]
  /\ UNCHANGED <<features, contents, consumed, omni, handed, pc, files, it, yielded, prio,
               conv, readers, rerun, pack>>

\* check_consistency: one iteration of the loop of process_dictionary, the
\* visitor comparing the entry with the next one of the iterator
CheckLine ==
  /\ chk.status = "running"
  /\ chk.line < Len(contents)
  /\ chk' =
       Bind(from_obj("RawEntry", contents[chk.line + 1]), LAMBDA entry_raw :
       Bind(Entries_next(chk.iter), LAMBDA actual :
         IF IsPanic(entry_raw)
           THEN [chk EXCEPT !.status = "panicked", !.line = @ + 1]
         ELSE IF IsNone(entry_raw)
           THEN [chk EXCEPT !.line = @ + 1]
         ELSE IF opts.is_db_minimal /\ entry_raw.val.ent_seq >= TruncateCutoff
           THEN [chk EXCEPT !.status = "traversed", !.line = @ + 1]
         ELSE IF ~IsSome(actual)
           THEN [chk EXCEPT !.status = "exhausted before end of traversal",
                            !.line = @ + 1]
         ELSE IF ~check("Entry", entry_raw.val, actual.val)
           THEN [chk EXCEPT !.status = "assertion failed", !.line = @ + 1]
         ELSE [chk EXCEPT !.iter = Entries(actual.iter, FALSE), !.line = @ + 1]))
  /\ UNCHANGED <<features, contents, consumed, omni, handed, pc, files, it, yielded, prio,
               conv, readers, rerun, pack>>

\* check_consistency: the second traversal runs out of lines
CheckEndOfPack ==
  /\ chk.status = "running"
  /\ chk.line = Len(contents)
  /\ chk' = [chk EXCEPT !.status = "traversed"]
  /\ UNCHANGED <<features, contents, consumed, omni, handed, pc, files, it, yielded, prio,
               conv, readers, rerun, pack>>

\* check_consistency: assert!(v.0.next().is_none())
CheckFinal ==
  /\ chk.status = "traversed"
  /\ chk' = [chk EXCEPT !.status = IF IsNone(Entries_next(chk.iter))
                                     THEN "passed"
                                     ELSE "not all entries were exhausted"]
  /\ UNCHANGED <<features, contents, consumed, omni, handed, pc, files, it, yielded, prio,
               conv, readers, rerun, pack>>

Next ==
  \/ StartBuild
  \/ ProcessLine
  \/ EndOfPack
  \/ WriteFiles
  \/ EntriesCall
  \/ EntriesNext
  \/ CheckStart
  \/ CheckLine
  \/ CheckEndOfPack
  \/ CheckFinal

InitBuild ==
  /\ features \in FeatureSets
  /\ consumed = 0
  /\ omni = EmptyOmni
  /\ handed = <<>>
  /\ pc = "main"
  /\ files = NoFiles
  /\ it = NoIter
  /\ yielded = <<>>
  /\ chk = NoChk
  /\ prio = NoPrio
  /\ conv = NoConv
  /\ readers = NoReaders
  /\ rerun = NoRerun
  /\ pack = NoPack

\* builds of entry packs of several lines
Init == InitBuild /\ contents \in SequencePacks

Spec == Init /\ [][Next]_vars

\* builds of entry packs of one line, the line drawn from RichRecords
InitRecord == InitBuild /\ contents \in { <<rec>> : rec \in RichRecords }

SpecRecord == InitRecord /\ [][Next]_vars

\* builds of one record whose senses have every list filled
SenseRecords ==
  { Rec(n, K, R, S) : n \in {1, TruncateCutoff},
                      K \in { <<>>, <<K_common>> },
                      R \in { <<R_common>>, <<R_uncommon, R_common2>> },
                      S \in { <<S_rich>>, <<S_rich_long>>, <<S_plain, S_rich>>,
                              <<S_rich_long, S_rich>> } }

InitSense == InitBuild /\ contents \in { <<rec>> : rec \in SenseRecords }

SpecSense == InitSense /\ [][Next]_vars

\* one iteration of the loop of parse_prio
ParsePrioStep ==
  /\ prio.status = "running"
  /\ prio.idx < Len(prio.markers)
  /\ LET step == parse_prio_step(prio.result, prio.markers[prio.idx + 1])
     IN  prio' = IF IsPanic(step)
                   THEN [prio EXCEPT !.status = "panicked", !.idx = @ + 1]
                   ELSE [prio EXCEPT !.result = step.val, !.idx = @ + 1]
  /\ UNCHANGED <<features, contents, consumed, omni, handed, pc, files, it, yielded, chk,
               conv, readers, rerun, pack>>

\* parse_prio returns its result
ParsePrioReturn ==
  /\ prio.status = "running"
  /\ prio.idx = Len(prio.markers)
  /\ prio' = [prio EXCEPT !.status = "returned"]
  /\ UNCHANGED <<features, contents, consumed, omni, handed, pc, files, it, yielded, chk,
               conv, readers, rerun, pack>>

NextPrio == ParsePrioStep \/ ParsePrioReturn

\* runs of parse_prio over every marker list of at most MaxMarkers markers
InitPrio ==
  /\ features = {"translations-eng"}
  /\ contents = <<>>
  /\ consumed = 0
  /\ omni = EmptyOmni
  /\ handed = <<>>
  /\ pc = "none"
  /\ files = NoFiles
  /\ it = NoIter
  /\ yielded = <<>>
  /\ chk = NoChk
  /\ prio \in { [markers |-> m, idx |-> 0, result |-> NoPriority, status |-> "running"] :
                  m \in MarkerLists }
  /\ conv = NoConv
  /\ readers = NoReaders
  /\ rerun = NoRerun
  /\ pack = NoPack

SpecPrio == InitPrio /\ [][NextPrio]_vars

\* runs of parse_prio over every list of one token
InitToken ==
  /\ features = {"translations-eng"}
  /\ contents = <<>>
  /\ consumed = 0
  /\ omni = EmptyOmni
  /\ handed = <<>>
  /\ pc = "none"
  /\ files = NoFiles
  /\ it = NoIter
  /\ yielded = <<>>
  /\ chk = NoChk
  /\ prio \in { [markers |-> <<t>>, idx |-> 0, result |-> NoPriority, status |-> "running"] :
                  t \in Tokens }
  /\ conv = NoConv
  /\ readers = NoReaders
  /\ rerun = NoRerun
  /\ pack = NoPack

SpecToken == InitToken /\ [][NextPrio]_vars

----------------------------------------------------------------------------
(***************************************************************************)
(* Two encoder runs: the OmniBuffer of the build, and a second OmniBuffer  *)
(* that is handed the same normalized entries in the same order, each at   *)
(* its own pace.                                                           *)
(***************************************************************************)

\* Visitor::process_entry of the second OmniBuffer, for its next entry
RerunEntry ==
  /\ rerun.fed < Len(handed)
  /\ rerun' = [omni |-> process_entry(rerun.omni, handed[rerun.fed + 1]),
               fed  |-> rerun.fed + 1]
  /\ UNCHANGED <<features, contents, consumed, omni, handed, pc, files, it, yielded,
                 chk, prio, conv, readers, pack>>

NextRerun == StartBuild \/ ProcessLine \/ EndOfPack \/ WriteFiles \/ RerunEntry

SpecRerun == Init /\ [][NextRerun]_vars

----------------------------------------------------------------------------
(***************************************************************************)
(* Conversions between a full-domain enum (AllGlossLanguage,               *)
(* AllPartOfSpeech) and the enum of the build.                             *)
(***************************************************************************)
NarrowedEnums == {"GlossLanguage", "PartOfSpeech"}

RestrictedOf(name) == IF name = "GlossLanguage" THEN GlossLanguage ELSE PartOfSpeech

FullOf(name) == IF name = "GlossLanguage" THEN AllGlossLanguage ELSE AllPartOfSpeech

\* value.try_into(): Result<E, DisabledVariant>
Narrow ==
  /\ conv.status = "given"
  /\ LET r == try_from(RestrictedOf(conv.enum), conv.value)
     IN  conv' = [conv EXCEPT !.status = IF r.tag = "ok" THEN "narrowed" ELSE "refused",
                              !.narrowed = r]
  /\ UNCHANGED <<features, contents, consumed, omni, handed, pc, files, it, yielded,
                 chk, prio, readers, rerun, pack>>

\* All...::from(narrowed)
Widen ==
  /\ conv.status = "narrowed"
  /\ conv' = [conv EXCEPT !.status = "widened",
                          !.widened = from(RestrictedOf(conv.enum), conv.narrowed.val)]
  /\ UNCHANGED <<features, contents, consumed, omni, handed, pc, files, it, yielded,
                 chk, prio, readers, rerun, pack>>

NextNarrow == Narrow \/ Widen

\* every value of the two full-domain enums, under every feature selection
InitNarrow ==
  /\ features \in FeatureSets
  /\ contents = <<>>
  /\ consumed = 0
  /\ omni = EmptyOmni
  /\ handed = <<>>
  /\ pc = "none"
  /\ files = NoFiles
  /\ it = NoIter
  /\ yielded = <<>>
  /\ chk = NoChk
  /\ prio = NoPrio
  /\ conv \in { [enum |-> e, value |-> v, status |-> "given",
                 narrowed |-> NoneV, widened |-> Null] :
                  e \in NarrowedEnums, v \in CodesOf(AllGlossLanguage) \cup CodesOf(AllPartOfSpeech) }
  /\ conv.value \in CodesOf(FullOf(conv.enum))
  /\ readers = NoReaders
  /\ rerun = NoRerun
  /\ pack = NoPack

SpecNarrow == InitNarrow /\ [][NextNarrow]_vars


----------------------------------------------------------------------------
(* Properties of the compiled artifacts (specification Spec)               *)

\* the view get_entry returns for the i-th entry handed to the encoder
Decoded(i) == get_entry(i - 1)

\* C1 (round trip): once the three artifacts are written, for every position
\* i of the sequence of entries handed to process_entry, get_entry decodes a
\* view with the sequence number of the i-th entry whose kanji elements,
\* reading elements and senses (all eleven child lists, every gloss and
\* loanword source field by field) pass the Check impls against it: equal
\* lengths, equal items, in the original order.  RawSense::encode_one packs
\* the ten offsets with + and << and no test of their size, so a sense with
\* 256 words before its glosses is written with the ninth offset carried
\* into the tenth, and the statement fails for it.
C1_RoundTrip ==
  files.written =>
    \A i \in 1..Len(handed) :
      /\ IsSome(Decoded(i))
      /\ Decoded(i).val.number = handed[i].ent_seq
      /\ check("Entry", handed[i], Decoded(i).val)

\* the words a sense puts before its glosses: the last of its ten cumulative
\* offsets
SenseLeadWords(s) ==
  2 * Len(s.stagk) + 2 * Len(s.stagr) + Len(s.pos) + 2 * Len(s.xref)
    + 2 * Len(s.ant) + Len(s.field) + Len(s.misc) + 2 * Len(s.s_inf)
    + 4 * Len(s.lsource) + Len(s.dial)

\* every cumulative offset of the entry fits the field it is packed into:
\* 8 bits for a sense's ten, 16 bits for the entry's two
WithinCeilings(e) ==
  /\ \A k \in DOMAIN e.sense : SenseLeadWords(e.sense[k]) <= 255
  /\ 5 * (Len(e.k_ele) + Len(e.r_ele)) <= 65535

\* the round trip of the entries inside the field-width ceilings, whatever
\* else the artifacts hold
RoundTripWithinCeilings ==
  files.written =>
    \A i \in 1..Len(handed) :
      WithinCeilings(handed[i]) =>
        /\ IsSome(Decoded(i))
        /\ Decoded(i).val.number = handed[i].ent_seq
        /\ check("Entry", handed[i], Decoded(i).val)

\* a sense of 64 loanword sources was encoded and written, and the view
\* decoded for it holds no loanword source
C1_Witness ==
  /\ files.written
  /\ \E i \in 1..Len(handed) :
       /\ ~WithinCeilings(handed[i])
       /\ IsSome(Decoded(i))
       /\ \E k \in DOMAIN handed[i].sense :
            /\ Len(handed[i].sense[k].lsource) = 64
            /\ k \in DOMAIN items(Decoded(i).val.senses_iter).val
            /\ Range_len(items(Decoded(i).val.senses_iter).val[k].loanword_sources_iter) = 0

RangeInBounds(r, P(_)) ==
  /\ r.start <= r.end
  /\ r.end <= ALL_DATA_len
  /\ LET got == items(r)
     IN  got.ok /\ \A k \in DOMAIN got.val : P(got.val[k])

\* an item with no range of its own
PlainItem(x) == TRUE

\* a string slice inside the text pool
StringInBounds(x) == x # PanicStr

ElementInBounds(el) ==
  StringInBounds(el.text) /\ RangeInBounds(el.info_iter, PlainItem)

LoanwordSourceInBounds(l) ==
  StringInBounds(l.text) /\ StringInBounds(l.language)

GlossInBounds(g) == StringInBounds(g.text)

SenseInBounds(s) ==
  /\ RangeInBounds(s.stagk_iter, StringInBounds)
  /\ RangeInBounds(s.stagr_iter, StringInBounds)
  /\ RangeInBounds(s.pos_iter, PlainItem)
  /\ RangeInBounds(s.cross_refs_iter, StringInBounds)
  /\ RangeInBounds(s.antonyms_iter, StringInBounds)
  /\ RangeInBounds(s.topics_iter, PlainItem)
  /\ RangeInBounds(s.info_iter, PlainItem)
  /\ RangeInBounds(s.freetext_info_iter, StringInBounds)
  /\ RangeInBounds(s.loanword_sources_iter, LoanwordSourceInBounds)
  /\ RangeInBounds(s.dialects_iter, PlainItem)
  /\ RangeInBounds(s.glosses_iter, GlossInBounds)

EntryInBounds(e) ==
  /\ IsSome(e)
  /\ RangeInBounds(e.val.kanji_elements_iter, ElementInBounds)
  /\ RangeInBounds(e.val.reading_elements_iter, ElementInBounds)
  /\ RangeInBounds(e.val.senses_iter, SenseInBounds)

\* C5 (in bounds): once the artifacts are written, for every recorded offset
\* the four header words lie inside the word pool, and every range reachable
\* from the entry (the three child regions, the sub-ranges of every element
\* and sense, every item next() reads, every string byte range) has
\* start <= end <= the length of its pool.  The sense of 256 leading words
\* decodes to a gloss range over the words of its loanword sources, and the
\* glosses read from them carry byte ranges outside the text pool.
C5_InBounds ==
  files.written =>
    \A i \in 1..entry_count :
      /\ V(ALL_ENTRY_OFFSETS(i - 1)) + 4 <= ALL_DATA_len
      /\ EntryInBounds(Decoded(i))

\* the ranges of the entries inside the field-width ceilings
InBoundsWithinCeilings ==
  files.written =>
    \A i \in 1..entry_count :
      WithinCeilings(handed[i]) =>
        /\ V(ALL_ENTRY_OFFSETS(i - 1)) + 4 <= ALL_DATA_len
        /\ EntryInBounds(Decoded(i))

\* a sense was written whose decoded gloss range yields a gloss with a text
\* byte range that is not inside the text pool
C5_Witness ==
  /\ files.written
  /\ \E i \in 1..entry_count :
       /\ IsSome(Decoded(i))
       /\ \E k \in DOMAIN items(Decoded(i).val.senses_iter).val :
            \E g \in DOMAIN items(items(Decoded(i).val.senses_iter).val[k].glosses_iter).val :
              items(items(Decoded(i).val.senses_iter).val[k].glosses_iter).val[g].text = PanicStr

----------------------------------------------------------------------------
(* Properties of the normaliser (specification SpecRecord: one record)     *)

\* the elements of a sequence
Elems(s) == {s[k] : k \in DOMAIN s}

\* the language code of a raw gloss, "eng" when the attribute is missing
RawLang(g) == IF g.l = Null THEN "eng" ELSE g.l

\* the language of a raw gloss is one the build has selected
LangSelected(g) ==
  \E k \in DOMAIN GlossLanguageVariants :
    /\ GlossLanguageVariants[k].code = RawLang(g)
    /\ GlossLanguageVariants[k].feature \in features

\* a raw sense carries the archaism marker
RawArchaic(s) == "arch" \in Elems(s.m)

\* a raw sense the filters let through
SenseSurvives(s) ==
  /\ "scope-archaic" \in features \/ ~RawArchaic(s)
  /\ \E k \in DOMAIN s.G : LangSelected(s.G[k])

\* a raw element the uncommon filter lets through
ElementSurvives(e) == "scope-uncommon" \in features \/ e.p # <<>>

\* the views the reader decodes from a range
Views(r) == items(r).val

\* C4 (non-degeneracy): every entry handed to the encoder has at least one
\* reading element and at least one sense, and each of its senses at least
\* one gloss; the same holds of every entry decoded from the artifacts; a
\* record without readings or without senses is not handed over.
C4_NonDegenerate ==
  /\ \A i \in 1..Len(handed) :
       /\ Len(handed[i].r_ele) >= 1
       /\ Len(handed[i].sense) >= 1
       /\ \A k \in DOMAIN handed[i].sense : Len(handed[i].sense[k].gloss) >= 1
  /\ files.written =>
       \A i \in 1..entry_count :
         /\ IsSome(Decoded(i))
         /\ Range_len(Decoded(i).val.reading_elements_iter) >= 1
         /\ Range_len(Decoded(i).val.senses_iter) >= 1
         /\ \A k \in DOMAIN Views(Decoded(i).val.senses_iter) :
              Range_len(Views(Decoded(i).val.senses_iter)[k].glosses_iter) >= 1
  /\ \A j \in 1..consumed :
       (contents[j].R = <<>> \/ contents[j].S = <<>>
          \/ \A k \in DOMAIN contents[j].S : contents[j].S[k].G = <<>>)
         => \A i \in 1..Len(handed) : handed[i].ent_seq # contents[j].n

\* a record of two senses, the first without any gloss, was handed over with
\* its second sense only, written and decoded
C4_Witness ==
  /\ files.written
  /\ Len(contents[1].S) = 2
  /\ contents[1].S[1].G = <<>>
  /\ Len(handed) = 1
  /\ Len(handed[1].sense) = 1
  /\ Range_len(Decoded(1).val.senses_iter) = 1

\* the raw senses of the record that survive both sense filters, in order
SurvivingSenses(rec) == SelectSeq(rec.S, SenseSurvives)

\* C6 (archaic filter): without scope-archaic no sense handed over and no
\* sense decoded carries the archaism marker, and a record all of whose
\* senses are archaic is handed over by no build step, so that it is absent
\* from the artifacts and from what entries() yields; with scope-archaic the
\* senses handed over are the raw senses with a gloss in a selected language,
\* archaic or not, in their order.
C6_ArchaicFilter ==
  /\ "scope-archaic" \notin features =>
       /\ \A i \in 1..Len(handed) : \A k \in DOMAIN handed[i].sense :
            "arch" \notin Elems(handed[i].sense[k].misc)
       /\ files.written =>
            \A i \in 1..entry_count : \A k \in DOMAIN Views(Decoded(i).val.senses_iter) :
              \A m \in DOMAIN Views(Views(Decoded(i).val.senses_iter)[k].info_iter) :
                Views(Views(Decoded(i).val.senses_iter)[k].info_iter)[m] # Some("arch")
       /\ (\A k \in DOMAIN contents[1].S : RawArchaic(contents[1].S[k])) =>
            /\ handed = <<>>
            /\ files.written => entry_count = 0
            /\ yielded = <<>>
  /\ ("scope-archaic" \in features /\ handed # <<>>) =>
       /\ Len(handed[1].sense)
            = Cardinality({k \in DOMAIN contents[1].S :
                             \E g \in DOMAIN contents[1].S[k].G :
                               LangSelected(contents[1].S[k].G[g])})
       /\ \A k \in DOMAIN handed[1].sense :
            handed[1].sense[k].misc = SurvivingSenses(contents[1])[k].m

\* without scope-archaic a record of an archaic and a plain sense was handed
\* over with the plain sense only, written and read back through entries()
C6_Witness ==
  /\ "scope-archaic" \notin features
  /\ Len(contents[1].S) = 2
  /\ RawArchaic(contents[1].S[1])
  /\ Len(handed) = 1
  /\ Len(handed[1].sense) = 1
  /\ Len(yielded) = 1

\* the raw glosses of a sense in a selected language, in order
SelectedGlosses(s) == SelectSeq(s.G, LangSelected)

\* C7 (language filter): the senses of an entry handed over are the raw
\* senses that pass the archaic filter and have a gloss in a selected
\* language, and the glosses of each are exactly its raw glosses in a
\* selected language, in order; every gloss decoded has a selected language;
\* a record without a gloss in any selected language is not handed over.
C7_LanguageFilter ==
  /\ handed # <<>> =>
       /\ Len(handed[1].sense) = Len(SurvivingSenses(contents[1]))
       /\ \A k \in DOMAIN handed[1].sense :
            LET raw == SelectedGlosses(SurvivingSenses(contents[1])[k])
            IN  /\ Len(handed[1].sense[k].gloss) = Len(raw)
                /\ \A g \in DOMAIN raw :
                     /\ handed[1].sense[k].gloss[g].text = raw[g].t
                     /\ handed[1].sense[k].gloss[g].lang = RawLang(raw[g])
  /\ files.written =>
       \A i \in 1..entry_count : \A k \in DOMAIN Views(Decoded(i).val.senses_iter) :
         \A g \in DOMAIN Views(Views(Decoded(i).val.senses_iter)[k].glosses_iter) :
           \E v \in DOMAIN GlossLanguageVariants :
             /\ GlossLanguageVariants[v].feature \in features
             /\ Views(Views(Decoded(i).val.senses_iter)[k].glosses_iter)[g].language
                  = Some(GlossLanguageVariants[v].code)
  /\ (\A k \in DOMAIN contents[1].S : SelectedGlosses(contents[1].S[k]) = <<>>) =>
       handed = <<>>

\* a record with a sense of glosses in three languages and a sense in German
\* only was handed over: built for English with one sense of one gloss
C7_Witness ==
  /\ features = {"translations-eng"}
  /\ Len(contents[1].S) = 2
  /\ Len(contents[1].S[1].G) = 3
  /\ Len(handed) = 1
  /\ Len(handed[1].sense) = 1
  /\ Len(handed[1].sense[1].gloss) = 1
  /\ files.written

\* C8 (uncommon filter): without scope-uncommon the kanji and reading
\* elements of an entry handed over are exactly the raw elements with a
\* non-empty marker list, in order, and each carries a priority other than
\* the empty one; with scope-uncommon they are all the raw elements.
C8_UncommonFilter ==
  handed # <<>> =>
    LET rawK == SelectSeq(contents[1].K, ElementSurvives)
        rawR == SelectSeq(contents[1].R, ElementSurvives)
    IN  /\ Len(handed[1].k_ele) = Len(rawK)
        /\ \A k \in DOMAIN rawK : handed[1].k_ele[k].keb = rawK[k].t
        /\ Len(handed[1].r_ele) = Len(rawR)
        /\ \A k \in DOMAIN rawR : handed[1].r_ele[k].reb = rawR[k].t
        /\ "scope-uncommon" \notin features =>
             /\ \A k \in DOMAIN handed[1].k_ele : handed[1].k_ele[k].ke_pri # NoPriority
             /\ \A k \in DOMAIN handed[1].r_ele : handed[1].r_ele[k].re_pri # NoPriority
        /\ "scope-uncommon" \in features =>
             /\ Len(handed[1].k_ele) = Len(contents[1].K)
             /\ Len(handed[1].r_ele) = Len(contents[1].R)

\* without scope-uncommon a record whose first kanji element and first
\* reading element have no marker was handed over with one element of each
C8_Witness ==
  /\ "scope-uncommon" \notin features
  /\ Len(contents[1].K) = 2 /\ contents[1].K[1].p = <<>>
  /\ Len(contents[1].R) = 2 /\ contents[1].R[1].p = <<>>
  /\ Len(handed) = 1
  /\ Len(handed[1].k_ele) = 1
  /\ Len(handed[1].r_ele) = 1

\* the codes the registry lists for an enum, enabled or not
AllCodes(variants) == {variants[k].code : k \in DOMAIN variants}

\* a token that is present and is not a code of the registry list
Unrecognized(token, variants) == token # Null /\ token \notin AllCodes(variants)

\* a marker parse_prio knows: a tier marker or a frequency bucket nf01..nf48
\* (of the buckets the packs use, nf18 and nf05)
RecognizedMarker(m) ==
  m \in {news1, news2, ichi1, ichi2, gai1, gai2, spec1, spec2} \/ m \in {nf18, nf05}

ElementHasBadToken(e, variants) ==
  \/ \E k \in DOMAIN e.i : Unrecognized(e.i[k], variants)
  \/ \E k \in DOMAIN e.p : ~RecognizedMarker(e.p[k])

SenseHasBadToken(s) ==
  \/ \E k \in DOMAIN s.p : Unrecognized(s.p[k], PartOfSpeechVariants)
  \/ \E k \in DOMAIN s.f : Unrecognized(s.f[k], SenseTopicVariants)
  \/ \E k \in DOMAIN s.m : Unrecognized(s.m[k], SenseInfoVariants)
  \/ \E k \in DOMAIN s.dial : Unrecognized(s.dial[k], DialectVariants)
  \/ \E k \in DOMAIN s.G :
       \/ Unrecognized(s.G[k].l, GlossLanguageVariants)
       \/ Unrecognized(s.G[k].g_type, GlossTypeVariants)
  \/ \E k \in DOMAIN s.L :
       \/ s.L[k].type \notin {Null, "full", "part"}
       \/ s.L[k].wasei \notin {Null, "n", "y"}

\* the record holds an unrecognized enum code, priority marker or
\* loanword-type/wasei token somewhere
HasBadToken(rec) ==
  \/ \E k \in DOMAIN rec.K : ElementHasBadToken(rec.K[k], KanjiInfoVariants)
  \/ \E k \in DOMAIN rec.R : ElementHasBadToken(rec.R[k], ReadingInfoVariants)
  \/ \E k \in DOMAIN rec.S : SenseHasBadToken(rec.S[k])

\* C9 (fatal build errors): in a build that traverses the whole pack (neither
\* db-empty nor db-minimal), a record holding an unrecognized enum code,
\* priority marker or loanword-type/wasei token anywhere keeps the three
\* artifacts from being written.  The normaliser validates a token only when
\* it reaches it: the info codes of an element the uncommon filter drops, the
\* fields of a sense dropped as archaic, the type of a gloss in a language
\* that is not selected, and every sense of a record without a surviving
\* reading are never looked at, so the build completes.
C9_FatalErrors ==
  ("db-empty" \notin features /\ "db-minimal" \notin features
     /\ \E j \in DOMAIN contents : HasBadToken(contents[j]))
    => ~files.written

\* a record whose only kanji element has no marker and an unknown info code
\* was built without scope-uncommon: the entry was handed over without the
\* element and the artifacts were written
C9_Witness ==
  /\ "db-empty" \notin features /\ "db-minimal" \notin features
  /\ "scope-uncommon" \notin features
  /\ contents[1].K = <<K_unc_badinfo>>
  /\ contents[1].S = <<S_plain>>
  /\ Len(handed) = 1
  /\ handed[1].k_ele = <<>>
  /\ files.written

\* what is validated is fatal: once a from_obj has panicked no artifact is
\* ever written, and a record handed over has no bad token in anything kept
PanicIsFatal ==
  /\ pc = "panicked" => ~files.written
  /\ \A j \in 1..Len(contents) :
       (\E i \in 1..Len(handed) : handed[i].ent_seq = contents[j].n)
         => /\ \A k \in DOMAIN contents[j].K :
                 ElementSurvives(contents[j].K[k])
                   => ~ElementHasBadToken(contents[j].K[k], KanjiInfoVariants)
            /\ \A k \in DOMAIN contents[j].R :
                 ElementSurvives(contents[j].R[k])
                   => ~ElementHasBadToken(contents[j].R[k], ReadingInfoVariants)

----------------------------------------------------------------------------
(* Properties of the marker merge (specification SpecPrio)                 *)

\* Absent < Secondary < Primary
TierRank(t) == CASE t = "Absent" -> 0 [] t = "Secondary" -> 1 [] t = "Primary" -> 2

\* the tier the markers of one corpus determine
TierOf(markers, primary, secondary) ==
  IF primary \in Elems(markers) THEN "Primary"
  ELSE IF secondary \in Elems(markers) THEN "Secondary"
  ELSE "Absent"

\* one iteration of parse_prio that did not panic: no tier decreases, and a
\* tier marker changes neither a tier of another corpus nor the bucket
C10_Step ==
  (prio.status = "running" /\ prio'.status = "running" /\ prio'.idx = prio.idx + 1) =>
    LET m == prio.markers[prio.idx + 1]
    IN  /\ TierRank(prio'.result.news) >= TierRank(prio.result.news)
        /\ TierRank(prio'.result.ichimango) >= TierRank(prio.result.ichimango)
        /\ TierRank(prio'.result.loanwords) >= TierRank(prio.result.loanwords)
        /\ TierRank(prio'.result.additional) >= TierRank(prio.result.additional)
        /\ m \notin {news1, news2} => prio'.result.news = prio.result.news
        /\ m \notin {ichi1, ichi2} => prio'.result.ichimango = prio.result.ichimango
        /\ m \notin {gai1, gai2} => prio'.result.loanwords = prio.result.loanwords
        /\ m \notin {spec1, spec2} => prio'.result.additional = prio.result.additional
        /\ m \in {news1, news2, ichi1, ichi2, gai1, gai2, spec1, spec2} =>
             prio'.result.frequency_bucket = prio.result.frequency_bucket

\* the result parse_prio returns
C10_Final ==
  prio.status = "returned" =>
    /\ prio.result.news = TierOf(prio.markers, news1, news2)
    /\ prio.result.ichimango = TierOf(prio.markers, ichi1, ichi2)
    /\ prio.result.loanwords = TierOf(prio.markers, gai1, gai2)
    /\ prio.result.additional = TierOf(prio.markers, spec1, spec2)

\* C10 (priority tier merge): while parse_prio goes through a marker list no
\* corpus tier ever decreases in the order Absent < Secondary < Primary, a
\* marker of one corpus leaves the tiers of the other corpora and the
\* frequency bucket as they were, and the tier parse_prio returns for a
\* corpus is Primary if its X1 marker occurs anywhere in the list, else
\* Secondary if its X2 marker occurs, else Absent.
C10_TierMerge == [][C10_Step]_vars /\ []C10_Final

\* parse_prio has returned from a list with news1 before news2 and a marker
\* of another corpus: the news tier is Primary
C10_Witness ==
  /\ prio.status = "returned"
  /\ prio.markers = <<news1, news2, ichi2>>
  /\ prio.result.news = "Primary"
  /\ prio.result.ichimango = "Secondary"

\* the decimal digits and the number a digit stands for
Digits == <<"0", "1", "2", "3", "4", "5", "6", "7", "8", "9">>
DigitValue(c) == (CHOOSE d \in DOMAIN Digits : Digits[d] = c) - 1

\* the token is "nf" followed by exactly two decimal digits
IsNfForm(m) ==
  /\ Len(m) = 4
  /\ m[1] = "n" /\ m[2] = "f"
  /\ m[3] \in Elems(Digits) /\ m[4] \in Elems(Digits)

\* the number NN of a token nfNN
BucketNumber(m) == 10 * DigitValue(m[3]) + DigitValue(m[4])

\* a frequency-bucket token: nfNN with NN in 01..48
IsBucketToken(m) == IsNfForm(m) /\ BucketNumber(m) \in 1..48

\* the numbers of the bucket tokens of a marker list
BucketNumbers(markers) ==
  {BucketNumber(markers[k]) : k \in {j \in DOMAIN markers : IsBucketToken(markers[j])}}

\* C11 (frequency bucket): the frequency_bucket parse_prio returns for a list
\* of valid markers is 0 when the list holds no nfNN token and otherwise the
\* smallest NN of the nfNN tokens in it, a number in 1..48, wherever in the
\* list the tokens stand.
C11_FrequencyBucket ==
  prio.status = "returned" =>
    IF BucketNumbers(prio.markers) = {}
      THEN prio.result.frequency_bucket = 0
      ELSE /\ prio.result.frequency_bucket \in BucketNumbers(prio.markers)
           /\ \A n \in BucketNumbers(prio.markers) : prio.result.frequency_bucket <= n
           /\ prio.result.frequency_bucket \in 1..48

\* parse_prio has returned from a list with nf18 first, a tier marker and
\* nf05 last: the bucket is 5
C11_Witness ==
  /\ prio.status = "returned"
  /\ prio.markers = <<nf18, ichi1, nf05>>
  /\ prio.result.frequency_bucket = 5

----------------------------------------------------------------------------
(* Properties of the marker vocabulary (specification SpecToken)           *)

\* the fixed vocabulary: the eight tier markers and nf01..nf48
InVocabulary(m) ==
  m \in {news1, news2, ichi1, ichi2, gai1, gai2, spec1, spec2} \/ IsBucketToken(m)

\* C12 (marker vocabulary): parse_prio panics on a token exactly when the
\* token is neither one of the eight tier markers nor "nf" followed by two
\* decimal digits that form a number in 01..48: it has panicked if and only
\* if one of the tokens it has gone through is outside the vocabulary, so
\* nf00, nf49..nf99 and the forms of one or three digits are fatal and every
\* token of the vocabulary is accepted.
C12_MarkerVocabulary ==
  /\ prio.status = "panicked" <=>
       \E k \in 1..prio.idx : ~InVocabulary(prio.markers[k])
  /\ prio.status = "returned" =>
       \A k \in DOMAIN prio.markers : InVocabulary(prio.markers[k])

\* parse_prio has panicked on the token nf49
C12_Witness ==
  /\ prio.status = "panicked"
  /\ prio.markers = << <<"n", "f", "4", "9">> >>
  /\ prio.idx = 1

\* where the vocabulary ends: nf48 and nf01 are in it; nf00, nf99, the
\* one-digit form nf1 and the three-digit form nf018 are not
VocabularyEdges ==
  /\ InVocabulary(<<"n", "f", "4", "8">>) /\ InVocabulary(<<"n", "f", "0", "1">>)
  /\ ~InVocabulary(<<"n", "f", "0", "0">>) /\ ~InVocabulary(<<"n", "f", "1">>)
  /\ ~InVocabulary(<<"n", "f", "0", "1", "8">>) /\ ~InVocabulary(<<"n", "f", "9", "9">>)

----------------------------------------------------------------------------
\* the cargo feature that gates the variant of a full-domain value
GateOf(name, value) ==
  LET vs == FullOf(name).variants
  IN  vs[CHOOSE i \in DOMAIN vs : vs[i].code = value].feature

DisabledInBuild(name, value) ==
  GateOf(name, value) # "" /\ GateOf(name, value) \notin features

\* C13 (enum narrowing): converting a value of AllGlossLanguage or
\* AllPartOfSpeech into the enum of the build yields Err(DisabledVariant),
\* and never a panic, exactly when the variant is disabled in the build;
\* for an enabled variant it yields Ok, and widening the result gives back
\* the value that was converted, at the same ordinal of the full domain.
C13_EnumNarrowing ==
  conv.status \in {"narrowed", "refused", "widened"} =>
    /\ conv.narrowed.tag \in {"ok", "err"}
    /\ DisabledInBuild(conv.enum, conv.value) <=>
         conv.narrowed = [tag |-> "err", val |-> "DisabledVariant"]
    /\ ~DisabledInBuild(conv.enum, conv.value) =>
         /\ conv.narrowed.tag = "ok"
         /\ from_u32(RestrictedOf(conv.enum),
                     to_u32(RestrictedOf(conv.enum), conv.narrowed.val))
              = Some(conv.narrowed.val)
    /\ conv.status = "widened" =>
         /\ conv.widened = conv.value
         /\ to_u32(FullOf(conv.enum), conv.widened)
              = to_u32(FullOf(conv.enum), conv.value)

\* a disabled language is refused and an enabled archaic part of speech
\* has made the round trip, in builds that disable something
C13_Witness ==
  \/ /\ conv.status = "refused"
     /\ conv.enum = "GlossLanguage"
     /\ conv.value = "fre"
  \/ /\ conv.status = "widened"
     /\ conv.enum = "PartOfSpeech"
     /\ GateOf("PartOfSpeech", conv.value) = "scope-archaic"
     /\ "translations-eng" \notin features

----------------------------------------------------------------------------
\* the eleven child lists of a sense: the field of RawSense, the iterator of
\* the Sense view and the words one item takes
SenseFields ==
  << [raw |-> "stagk",   view |-> "stagk_iter",            width |-> 2],
     [raw |-> "stagr",   view |-> "stagr_iter",            width |-> 2],
     [raw |-> "pos",     view |-> "pos_iter",              width |-> 1],
     [raw |-> "xref",    view |-> "cross_refs_iter",       width |-> 2],
     [raw |-> "ant",     view |-> "antonyms_iter",         width |-> 2],
     [raw |-> "field",   view |-> "topics_iter",           width |-> 1],
     [raw |-> "misc",    view |-> "info_iter",             width |-> 1],
     [raw |-> "s_inf",   view |-> "freetext_info_iter",    width |-> 2],
     [raw |-> "lsource", view |-> "loanword_sources_iter", width |-> 4],
     [raw |-> "dial",    view |-> "dialects_iter",         width |-> 1],
     [raw |-> "gloss",   view |-> "glosses_iter",          width |-> 2] >>

AllListsFilled(s) == \A f \in DOMAIN SenseFields : Len(s[SenseFields[f].raw]) > 0

\* the words the eleven lists of a sense take together
SenseDataWords(s) == SenseLeadWords(s) + 2 * Len(s.gloss)

\* the k-th Sense view of the i-th entry of the artifacts
SenseView(i, k) == items(Decoded(i).val.senses_iter).val[k]

\* the decoded view of a sense holds the lists of the sense
BitPacked(s, view) ==
  /\ \A f \in DOMAIN SenseFields :
       /\ view[SenseFields[f].view].N = SenseFields[f].width
       /\ Range_len(view[SenseFields[f].view]) = Len(s[SenseFields[f].raw])
  /\ check("Sense", s, view)
  /\ view.glosses_iter.end - view.stagk_iter.start = SenseDataWords(s)

\* C14 (bit-pack correctness): once the artifacts are written, every sense
\* handed to the encoder whose eleven child lists are all non-empty decodes
\* from its 5-word header to a view with exactly Li items in child field i,
\* each item as wide as its field (2,2,1,2,2,1,1,2,4,1,2 words), equal to
\* the encoded items in the original order, over a data region of exactly
\* the sum of Li times the width of field i.  The header is packed without
\* a test of the offsets, so the statement fails for a sense whose lists
\* before the glosses take 256 words or more.
C14_BitPack ==
  files.written =>
    \A i \in 1..Len(handed) : \A k \in DOMAIN handed[i].sense :
      AllListsFilled(handed[i].sense[k]) =>
        /\ IsSome(Decoded(i))
        /\ k \in DOMAIN items(Decoded(i).val.senses_iter).val
        /\ BitPacked(handed[i].sense[k], SenseView(i, k))

\* the same for the senses whose ten offsets fit their 8-bit fields
BitPackWithinCeilings ==
  files.written =>
    \A i \in 1..Len(handed) : \A k \in DOMAIN handed[i].sense :
      AllListsFilled(handed[i].sense[k]) /\ SenseLeadWords(handed[i].sense[k]) <= 255 =>
        /\ IsSome(Decoded(i))
        /\ k \in DOMAIN items(Decoded(i).val.senses_iter).val
        /\ BitPacked(handed[i].sense[k], SenseView(i, k))

\* a sense with all eleven lists filled was written and decodes as packed
BitPackCase ==
  /\ files.written
  /\ \E i \in 1..Len(handed) : \E k \in DOMAIN handed[i].sense :
       /\ AllListsFilled(handed[i].sense[k])
       /\ SenseLeadWords(handed[i].sense[k]) <= 255
       /\ Len(handed[i].sense[k].pos) = 3
       /\ BitPacked(handed[i].sense[k], SenseView(i, k))

\* a sense with all eleven lists filled and 64 loanword sources was written;
\* its data region has the size of its lists, and the view decoded from its
\* header holds fewer loanword sources than were encoded
C14_Witness ==
  /\ files.written
  /\ \E i \in 1..Len(handed) : \E k \in DOMAIN handed[i].sense :
       /\ AllListsFilled(handed[i].sense[k])
       /\ Len(handed[i].sense[k].lsource) = 64
       /\ IsSome(Decoded(i))
       /\ k \in DOMAIN items(Decoded(i).val.senses_iter).val
       /\ SenseView(i, k).glosses_iter.end - SenseView(i, k).stagk_iter.start
            = SenseDataWords(handed[i].sense[k])
       /\ Range_len(SenseView(i, k).loanword_sources_iter) < 64

----------------------------------------------------------------------------
\* the bytes main() writes for an OmniBuffer
ArtifactsOf(o) ==
  [entry_offsets |-> write_u32s(o.entry_offsets),
   payload       |-> write_u32s(o.data),
   strings       |-> o.text,
   written       |-> TRUE]

----------------------------------------------------------------------------
(***************************************************************************)
(* Readers of the written artifacts.  Each reader owns its iterators: an   *)
(* Entries from entries(), or a Range wrapper an accessor of a view handed *)
(* out by value.  A reader holds the view it called the accessor on, the   *)
(* iterator, and what the iterator has returned so far.                    *)
(***************************************************************************)
MaxNones == 2     \* calls of next() a reader makes at the end of an iterator
MaxCalls == 2     \* calls in a row of one accessor on one view

ReaderIds == {"r1", "r2"}

DbView == [tag |-> "db"]

\* the accessors of a view, named by the field they return: entries();
\* Entry::kanji_elements, reading_elements, senses; infos of an element;
\* the eleven accessors of Sense
Accessors(kind) ==
  CASE kind = "db" -> {"entries"}
    [] kind = "Entry" -> {"kanji_elements_iter", "reading_elements_iter", "senses_iter"}
    [] kind \in {"KanjiElement", "ReadingElement"} -> {"info_iter"}
    [] kind = "Sense" -> {SenseFields[f].view : f \in DOMAIN SenseFields}
    [] OTHER -> {}

\* an accessor that hands out the iterator after its first item
accessor_spent(kind, view, name) ==
  IF kind = "db"
    THEN [kind |-> "Entry", N |-> 1, start |-> Entries_new.start + 1, end |-> Entries_new.end]
    ELSE [view[name] EXCEPT !.start = @ + view[name].N]

\* the iterator an accessor returns: a copy of the field of the view
accessor(kind, view, name) ==
  IF kind = "db"
    THEN [kind |-> "Entry", N |-> 1, start |-> Entries_new.start, end |-> Entries_new.end]
    ELSE view[name]

\* Iterator::next and ExactSizeIterator::len of the wrapper or of Entries
iter_next(i) == IF i.kind = "Entry" THEN Entries_next(i) ELSE Range_next(i)

iter_len(i) == IF i.kind = "Entry" THEN Entries_len(i) ELSE Range_len(i)

\* get() of the item panicked: a string slice outside ALL_TEXTS, an ordinal
\* no variant has
HasPanic(kind, item) ==
  CASE kind \in EnumKinds -> IsPanic(item)
    [] kind = "str" -> item = PanicStr
    [] kind = "Gloss" ->
         item.text = PanicStr \/ IsPanic(item.language) \/ IsPanic(item.gloss_type)
    [] kind = "LoanwordSource" -> item.text = PanicStr \/ item.language = PanicStr
    [] kind \in {"KanjiElement", "ReadingElement"} ->
         item.text = PanicStr \/ IsPanic(item.priority)
    [] OTHER -> FALSE

IdleReader ==
  [kind |-> "db", view |-> DbView, acc |-> "", iter |-> NoIter, seen |-> <<>>,
   nones |-> 0, status |-> "idle", length |-> NoneV, fresh |-> 0]

\* reader r calls an accessor: entries(), the accessor it called last on the
\* view it holds, or an accessor of the item its iterator returned last
ReaderCall(r) ==
  /\ files.written
  /\ readers[r].status # "panicked"
  /\ \E target \in {"db", "held", "item"} :
       /\ target = "held" => readers[r].status = "open"
       /\ target = "item" => readers[r].status = "open" /\ readers[r].seen # <<>>
       /\ LET rd   == readers[r]
              kind == CASE target = "db" -> "db"
                        [] target = "held" -> rd.kind
                        [] target = "item" -> rd.iter.kind
              view == CASE target = "db" -> DbView
                        [] target = "held" -> rd.view
                        [] target = "item" -> rd.seen[Len(rd.seen)]
          IN  \E name \in Accessors(kind) :
                LET again == rd.status = "open" /\ view = rd.view /\ name = rd.acc
                IN  /\ target = "held" => again
                    /\ again => rd.fresh < MaxCalls
                    /\ readers' = [readers EXCEPT ![r] =
                         [kind |-> kind, view |-> view, acc |-> name,
                          iter |-> accessor(kind, view, name), seen |-> <<>>,
                          nones |-> 0, status |-> "open", length |-> NoneV,
                          fresh |-> IF again THEN rd.fresh + 1 ELSE 1]]
  /\ UNCHANGED <<features, contents, consumed, omni, handed, pc, files, it, yielded,
                 chk, prio, conv, rerun, pack>>

\* reader r calls next() on its iterator
ReaderNext(r) ==
  /\ readers[r].status = "open"
  /\ readers[r].nones < MaxNones
  /\ Bind(iter_next(readers[r].iter), LAMBDA n :
       IF IsPanic(n) \/ (IsSome(n) /\ HasPanic(readers[r].iter.kind, n.val))
         THEN readers' = [readers EXCEPT ![r].status = "panicked"]
       ELSE IF IsSome(n)
         THEN readers' = [readers EXCEPT ![r].iter = n.iter,
                                         ![r].seen = Append(@, n.val),
                                         ![r].length = NoneV]
       ELSE readers' = [readers EXCEPT ![r].nones = @ + 1, ![r].length = NoneV])
  /\ UNCHANGED <<features, contents, consumed, omni, handed, pc, files, it, yielded,
                 chk, prio, conv, rerun, pack>>

\* reader r calls len() on its iterator
ReaderLen(r) ==
  /\ readers[r].status = "open"
  /\ readers[r].length = NoneV
  /\ readers' = [readers EXCEPT ![r].length = Some(iter_len(readers[r].iter))]
  /\ UNCHANGED <<features, contents, consumed, omni, handed, pc, files, it, yielded,
                 chk, prio, conv, rerun, pack>>

NextReaders ==
  \/ StartBuild
  \/ ProcessLine
  \/ EndOfPack
  \/ WriteFiles
  \/ \E r \in DOMAIN readers : ReaderCall(r)
  \/ \E r \in DOMAIN readers : ReaderNext(r)
  \/ \E r \in DOMAIN readers : ReaderLen(r)

\* the builds two readers read from
ReaderPacks ==
  { << Rec(1, <<K_common>>, <<R_common>>, <<S_plain>>) >> }

InitReaders ==
  /\ features = {"translations-eng"}
  /\ contents \in ReaderPacks
  /\ consumed = 0
  /\ omni = EmptyOmni
  /\ handed = <<>>
  /\ pc = "main"
  /\ files = NoFiles
  /\ it = NoIter
  /\ yielded = <<>>
  /\ chk = NoChk
  /\ prio = NoPrio
  /\ conv = NoConv
  /\ readers = [r \in ReaderIds |-> IdleReader]
  /\ rerun = NoRerun
  /\ pack = NoPack

SpecReaders == InitReaders /\ [][NextReaders]_vars

----------------------------------------------------------------------------
\* the builds one reader reads from: one with every list of a sense filled,
\* one with a sense of 64 loanword sources, one of two entries
CursorPacks ==
  { << Rec(1, <<K_common, K_uncommon>>, <<R_uncommon, R_common2>>, <<S_rich>>) >>,
    << Rec(1, <<>>, <<R_common>>, <<S_long>>) >>,
    << Rec(1, <<K_common>>, <<R_common>>, <<S_plain>>),
       Rec(TruncateCutoff - 10, <<>>, <<R_uncommon>>, <<S_ger, S_archaic>>) >> }

CursorFeatureSets ==
  { {"translations-eng"},
    {"translations-eng", "scope-uncommon", "scope-archaic"},
    {"translations-dut", "translations-ger", "scope-uncommon"} }

InitCursor ==
  /\ features \in CursorFeatureSets
  /\ contents \in CursorPacks
  /\ consumed = 0
  /\ omni = EmptyOmni
  /\ handed = <<>>
  /\ pc = "main"
  /\ files = NoFiles
  /\ it = NoIter
  /\ yielded = <<>>
  /\ chk = NoChk
  /\ prio = NoPrio
  /\ conv = NoConv
  /\ readers = [r \in {"r1"} |-> IdleReader]
  /\ rerun = NoRerun
  /\ pack = NoPack

SpecCursor == InitCursor /\ [][NextReaders]_vars

----------------------------------------------------------------------------
\* the iterator the view of a reader holds for the accessor the reader
\* called: the field of the view, or the whole offset table for entries()
Handed(rd) ==
  IF rd.kind = "db"
    THEN [kind |-> "Entry", N |-> 1, start |-> 0, end |-> entry_count]
    ELSE rd.view[rd.acc]

\* the k-th item of an iterator, decoded from the artifacts
ItemAt(i, k) ==
  IF i.kind = "Entry"
    THEN get_entry(i.start + k - 1).val
    ELSE get(i.kind, [j \in 1..i.N |-> ALL_DATA(i.start + (k - 1) * i.N + j - 1)])

\* what a reader alone gets from the iterator its accessor handed out: the
\* items at the positions a loop over it visits, in order
ObservesAsAlone(rd) ==
  /\ Len(rd.seen) <= Range_calls(Handed(rd))
  /\ \A k \in DOMAIN rd.seen : rd.seen[k] = ItemAt(Handed(rd), k)
  /\ rd.nones > 0 => Len(rd.seen) = Range_calls(Handed(rd))

\* C16 (concurrent readers): with two readers calling accessors, next() and
\* len() on their own iterators in any interleaving, each reader has at
\* every moment been returned exactly the items it would have been returned
\* alone (a prefix of the sequence of its iterator, all of it once next()
\* has returned None) and no call of it has panicked, and the three
\* artifacts are in every state the bytes the build wrote.
C16_ConcurrentReaders ==
  /\ \A r \in DOMAIN readers :
       /\ readers[r].status # "panicked"
       /\ readers[r].status = "open" => ObservesAsAlone(readers[r])
  /\ (\E r \in DOMAIN readers : readers[r].status # "idle") =>
       files.written /\ files = ArtifactsOf(omni)

\* one reader has finished the entries and is inside the senses of the
\* entry while the other has since run entries() to its end
C16_Witness ==
  /\ readers["r1"].status = "open"
  /\ readers["r1"].acc = "senses_iter"
  /\ Len(readers["r1"].seen) = 1
  /\ readers["r2"].status = "open"
  /\ readers["r2"].acc = "entries"
  /\ Len(readers["r2"].seen) = 1
  /\ readers["r2"].nones = 1
  /\ readers["r2"].length = Some(0)

\* C17 (restartable iteration): an iterator a reader got by calling the
\* same accessor on the same view again yields the sequence of the view
\* from its first item, in full, whatever the iterator of the earlier call
\* had returned; and while a reader advances its iterator, the iterator
\* field of the view it came from stays at the first item, as does every
\* other iterator handed out from the same view: each stands as many items
\* into the view's sequence as it has itself returned.
C17_Restartable ==
  \A r \in DOMAIN readers :
    readers[r].status = "open" =>
      /\ readers[r].iter = Range_after(Handed(readers[r]), Len(readers[r].seen))
      /\ readers[r].fresh >= 2 => ObservesAsAlone(readers[r])
      /\ \A o \in DOMAIN readers :
           /\ readers[o].status = "open"
           /\ readers[o].view = readers[r].view
           /\ readers[o].acc = readers[r].acc
           => Handed(readers[o]) = Handed(readers[r])

\* the second iterator of the same accessor on the same entry has yielded
\* the kanji element and then None, next to a reader still at the start of
\* its iterator of the same accessor
C17_Witness ==
  /\ readers["r1"].status = "open"
  /\ readers["r1"].acc = "kanji_elements_iter"
  /\ readers["r1"].fresh = 2
  /\ Len(readers["r1"].seen) = 1
  /\ readers["r1"].nones = 1
  /\ readers["r2"].status = "open"
  /\ readers["r2"].acc = "kanji_elements_iter"
  /\ readers["r2"].seen = <<>>

----------------------------------------------------------------------------
\* the cursor protocol of the iterator of one reader, against the iterator
\* its accessor handed out
CursorProtocol(rd) ==
  /\ rd.status # "panicked"
  /\ rd.iter = Range_after(Handed(rd), Len(rd.seen))
  /\ rd.length # NoneV =>
       rd.length = Some((Handed(rd).end - Handed(rd).start) \div Handed(rd).N - Len(rd.seen))
  /\ \A k \in 1..Len(rd.seen) : Handed(rd).start + (k - 1) * Handed(rd).N < Handed(rd).end
  /\ rd.nones > 0 =>
       /\ rd.iter.start >= rd.iter.end
       /\ Len(rd.seen) = iter_len(Handed(rd))

\* C18 (cursor protocol): for the iterator of every reader, a Range wrapper
\* of item width w or Entries (w = 1): len() is (end - start) / w and leaves
\* the iterator as it was; every item returned has lowered len() by one and
\* moved the cursor by w; next() has returned an item only where start < end
\* and None only where start >= end, leaving the cursor in place, again
\* None on every later call; no call has panicked; and an iterator that has
\* returned None has yielded exactly as many items as its len() was at
\* first.  A sense header written past the 8-bit ceiling decodes to ranges
\* over words of other lists, and the statement fails for their iterators.
C18_CursorProtocol ==
  \A r \in DOMAIN readers :
    readers[r].status # "idle" => CursorProtocol(readers[r])

\* the same in the builds whose entries all lie inside the field-width
\* ceilings
CursorProtocolWithinCeilings ==
  (\A i \in 1..Len(handed) : WithinCeilings(handed[i])) =>
    \A r \in DOMAIN readers :
      readers[r].status # "idle" => CursorProtocol(readers[r])

\* an iterator of three parts of speech has returned them all and then None
\* twice, and len() then gives 0
CursorCase ==
  /\ readers["r1"].status = "open"
  /\ readers["r1"].acc = "pos_iter"
  /\ Len(readers["r1"].seen) = 3
  /\ readers["r1"].nones = 2
  /\ readers["r1"].length = Some(0)
  /\ CursorProtocol(readers["r1"])

\* the glosses iterator of the sense of 64 loanword sources: its len() was
\* 128 over a range of 257 words, and next() has panicked in get() on words
\* of the loanword sources
C18_Witness ==
  /\ readers["r1"].acc = "glosses_iter"
  /\ Len(handed) = 1
  /\ Len(handed[1].sense[1].lsource) = 64
  /\ Len(handed[1].sense[1].gloss) = 1
  /\ iter_len(Handed(readers["r1"])) = 128
  /\ Handed(readers["r1"]).end - Handed(readers["r1"]).start = 257
  /\ readers["r1"].status = "panicked"

----------------------------------------------------------------------------
\* the Priority the markers of an element merge to: per corpus the best
\* tier a marker names, and the smallest frequency bucket
MergedPriority(markers) ==
  [news             |-> TierOf(markers, news1, news2),
   ichimango        |-> TierOf(markers, ichi1, ichi2),
   loanwords        |-> TierOf(markers, gai1, gai2),
   additional       |-> TierOf(markers, spec1, spec2),
   frequency_bucket |-> IF BucketNumbers(markers) = {} THEN 0
                        ELSE CHOOSE b \in BucketNumbers(markers) :
                               \A n \in BucketNumbers(markers) : b <= n]

\* C19 (priority round trip): once the artifacts of a record are written,
\* the Priority the reader decodes from the header word of each kanji
\* element and each reading element that was retained is the Priority its
\* markers merge to, in all four tiers and the frequency bucket.
C19_PriorityRoundTrip ==
  files.written /\ handed # <<>> =>
    LET rawK == SelectSeq(contents[1].K, ElementSurvives)
        rawR == SelectSeq(contents[1].R, ElementSurvives)
    IN  /\ IsSome(Decoded(1))
        /\ DOMAIN Views(Decoded(1).val.kanji_elements_iter) = DOMAIN rawK
        /\ DOMAIN Views(Decoded(1).val.reading_elements_iter) = DOMAIN rawR
        /\ \A k \in DOMAIN rawK :
             Views(Decoded(1).val.kanji_elements_iter)[k].priority
               = Some(MergedPriority(rawK[k].p))
        /\ \A k \in DOMAIN rawR :
             Views(Decoded(1).val.reading_elements_iter)[k].priority
               = Some(MergedPriority(rawR[k].p))

\* a kanji element with the markers news2, nf18, news1 and a reading element
\* with gai2, nf05 were written and decode to news Primary in bucket 18 and
\* to loanwords Secondary in bucket 5
C19_Witness ==
  /\ files.written
  /\ handed # <<>>
  /\ contents[1].K = <<K_uncommon, K_common>>
  /\ contents[1].R = <<R_uncommon, R_common2>>
  /\ "scope-uncommon" \notin features
  /\ Views(Decoded(1).val.kanji_elements_iter)[1].priority
       = Some([NoPriority EXCEPT !.news = "Primary", !.frequency_bucket = 18])
  /\ Views(Decoded(1).val.reading_elements_iter)[1].priority
       = Some([NoPriority EXCEPT !.loanwords = "Secondary", !.frequency_bucket = 5])

----------------------------------------------------------------------------
\* C20 (split-field ceiling): an entry with a cumulative offset that does
\* not fit its split field (8 bits for the ten of a sense, 16 bits for the
\* two of the entry) makes the encoder fail when it is handed over: the
\* build stands panicked, and no artifacts are written that hold it.  The
\* encoder has no such test: it packs the offsets with + and << as they are
\* and the build goes on to write the artifacts.
C20_CeilingEnforced ==
  \A i \in 1..Len(handed) :
    ~WithinCeilings(handed[i]) => pc = "panicked" /\ ~files.written

\* the artifacts were written with a sense whose ninth and tenth offsets are
\* 256: it was encoded without dialects, and its header decodes to a
\* dialects iterator of one item
C20_Witness ==
  /\ pc = "written"
  /\ files.written
  /\ \E i \in 1..Len(handed) : \E k \in DOMAIN handed[i].sense :
       /\ SenseLeadWords(handed[i].sense[k]) = 256
       /\ handed[i].sense[k].dial = <<>>
       /\ IsSome(Decoded(i))
       /\ k \in DOMAIN items(Decoded(i).val.senses_iter).val
       /\ Range_len(SenseView(i, k).dialects_iter) = 1
----------------------------------------------------------------------------
(* The header words of a Gloss and of a LoanwordSource                     *)
(*                                                                         *)
(* RawGloss::encode_one and RawLSource::encode_one intern the strings of   *)
(* one item and pack an ordinal or a flag into the bits 28..31 of the      *)
(* string offsets; FromPayload::get masks them apart again.  The words     *)
(* depend on the text pool only through the number of bytes it holds, so   *)
(* the text pool of this specification is that number, which lets the      *)
(* pool be as large as the pool of a large dictionary.                     *)
(***************************************************************************)

\* 0x10000000, the first offset that does not fit in the 28 bits that the
\* readers mask out (& 0x0FFFFFFF)
TextCeiling == 268435456

\* the bytes in the text pool before the item is encoded
TextPoolLens ==
  {0, 9, TextCeiling - 4, TextCeiling - 1, TextCeiling, TextCeiling + 6}

\* the bytes of the strings of the item
StrLens == {0, 1, 3}

GlossInputs ==
  [kind : {"Gloss"}, status : {"given"}, text_len : TextPoolLens, n : StrLens,
   lang : CodesOf(GlossLanguage), g_type : CodesOf(GlossType)]

LSourceInputs ==
  [kind : {"LoanwordSource"}, status : {"given"}, text_len : TextPoolLens,
   n : StrLens, lang_n : StrLens, is_partial : BOOLEAN, is_wasei : BOOLEAN]

\* the strings interned by RawLSource::encode_one: the text, then the language
LSourceRefs(p) ==
  LET t == push_str_ref(p.text_len, p.n)
  IN  [text |-> t, lang |-> push_str_ref(p.text_len + p.n, p.lang_n)]

\* ToPayload::encode_one of the item: the strings are interned and the words
\* are written; there is no test of the offsets against 2^28
PackWords ==
  /\ pack.status = "given"
  /\ pack' =
       IF pack.kind = "Gloss"
         THEN [kind |-> "Gloss", status |-> "packed", given |-> pack,
               r |-> push_str_ref(pack.text_len, pack.n),
               words |-> RawGloss_words(push_str_ref(pack.text_len, pack.n),
                                        pack.lang, pack.g_type)]
         ELSE [kind |-> "LoanwordSource", status |-> "packed", given |-> pack,
               r |-> LSourceRefs(pack).text,
               words |-> RawLSource_words(LSourceRefs(pack).text, LSourceRefs(pack).lang,
                                          pack.is_partial, pack.is_wasei)]
  /\ UNCHANGED <<features, contents, consumed, omni, handed, pc, files, it, yielded,
                 chk, prio, conv, readers, rerun>>

\* FromPayload::get of the words, up to the lookup of the strings
UnpackWords ==
  /\ pack.status = "packed"
  /\ pack' = [kind |-> pack.kind, status |-> "unpacked", given |-> pack.given,
               r |-> pack.r, words |-> pack.words,
               fields |-> IF pack.kind = "Gloss"
                            THEN Gloss_unpack(pack.words)
                            ELSE LoanwordSource_unpack(pack.words)]
  /\ UNCHANGED <<features, contents, consumed, omni, handed, pc, files, it, yielded,
                 chk, prio, conv, readers, rerun>>

NextPack == PackWords \/ UnpackWords

\* every translation feature of the crate
AllTranslations ==
  {GlossLanguageVariants[i].feature : i \in DOMAIN GlossLanguageVariants}

PackFeatureSets == LanguageSelections \cup {AllTranslations}

InitPack ==
  /\ features \in PackFeatureSets
  /\ contents = <<>>
  /\ consumed = 0
  /\ omni = EmptyOmni
  /\ handed = <<>>
  /\ pc = "none"
  /\ files = NoFiles
  /\ it = NoIter
  /\ yielded = <<>>
  /\ chk = NoChk
  /\ prio = NoPrio
  /\ conv = NoConv
  /\ readers = NoReaders
  /\ rerun = NoRerun
  /\ pack \in GlossInputs \cup LSourceInputs

SpecPack == InitPack /\ [][NextPack]_vars

----------------------------------------------------------------------------
(* C21: the ceiling of the text pool                                       *)

\* C21: a Gloss or LoanwordSource header word is written only for string
\* offsets below 2^28: with an offset of 2^28 or more the encoder stops
\* instead of writing a word whose offset bits overlap the bits 28..31.
C21_TextCeilingEnforced ==
  pack.status \in {"packed", "unpacked"} =>
    pack.r.start < TextCeiling /\ pack.r.end < TextCeiling

\* a gloss in the first enabled language whose text starts at offset 2^28 is
\* written, and its first word reads back as offset 0 in the language of
\* ordinal 1
C21_Witness ==
  /\ pack.status = "unpacked"
  /\ pack.kind = "Gloss"
  /\ pack.r.start = TextCeiling
  /\ to_u32(GlossLanguage, pack.given.lang) = 0
  /\ pack.words[1] = <<4096, 0>>
  /\ pack.fields.start = 0
  /\ pack.fields.lang_code = 1

----------------------------------------------------------------------------
(* C22: the round trip of the packed bits                                  *)

\* the text range of the item lies below the ceiling
BelowCeiling == pack.r.start < TextCeiling /\ pack.r.end < TextCeiling

\* C22: for a text range below 2^28, the words of a Gloss read back as the
\* same range and the ordinals of its language and gloss type, which name the
\* same variants again; the words of a LoanwordSource read back as the same
\* range and the same two flags, each on its own.
C22_HighBitRoundTrip ==
  pack.status = "unpacked" /\ BelowCeiling =>
    /\ pack.fields.start = pack.r.start
    /\ pack.fields.end = pack.r.end
    /\ pack.kind = "Gloss" =>
         /\ pack.fields.lang_code = to_u32(GlossLanguage, pack.given.lang)
         /\ pack.fields.type_code = to_u32(GlossType, pack.given.g_type)
         /\ pack.fields.lang_code < 16 /\ pack.fields.type_code < 16
         /\ from_u32(GlossLanguage, pack.fields.lang_code) = Some(pack.given.lang)
         /\ from_u32(GlossType, pack.fields.type_code) = Some(pack.given.g_type)
    /\ pack.kind = "LoanwordSource" =>
         /\ pack.fields.is_partial = pack.given.is_partial
         /\ pack.fields.is_wasei = pack.given.is_wasei
         /\ pack.fields.lang_start = LSourceRefs(pack.given).lang.start
         /\ pack.fields.lang_end = LSourceRefs(pack.given).lang.end

\* a gloss that ends at the last offset below the ceiling, in the language and
\* the gloss type of the highest ordinals, has been read back
C22_Witness ==
  /\ pack.status = "unpacked"
  /\ pack.kind = "Gloss"
  /\ pack.r.end = TextCeiling - 1
  /\ pack.fields.end = TextCeiling - 1
  /\ pack.fields.lang_code = 8
  /\ pack.fields.type_code = 4

----------------------------------------------------------------------------
(* C23: truncation of the traversal under db-minimal                       *)

\* the consumed records that from_obj turns into an entry
EntriesAmong(n) ==
  {k \in 1..n : IsSome(from_obj("RawEntry", contents[k]))}

\* C23: with db-minimal, no record is consumed after a record whose sequence
\* number is at or beyond the cutoff, and no entry at or beyond the cutoff is
\* handed to the encoder; without db-minimal, every consumed record that
\* yields an entry is handed to the encoder whatever its sequence number.
C23_Truncation ==
  /\ opts.is_db_minimal =>
       /\ \A k \in 1..(consumed - 1) : contents[k].n < TruncateCutoff
       /\ \A i \in DOMAIN handed : handed[i].ent_seq < TruncateCutoff
  /\ ~opts.is_db_minimal /\ pc # "panicked" =>
       Len(handed) = Cardinality(EntriesAmong(consumed))

\* with db-minimal, the first record is at the cutoff and yields no entry, and
\* the build has gone on to the second record and aborted on it
C23_Witness ==
  /\ opts.is_db_minimal
  /\ consumed = 2
  /\ contents[1].n >= TruncateCutoff
  /\ pc = "panicked"

\* with db-minimal, every entry handed to the encoder lies below the cutoff,
\* and the traversal ends at the first entry that does not
TruncationAtEntries ==
  opts.is_db_minimal =>
    /\ \A i \in DOMAIN handed : handed[i].ent_seq < TruncateCutoff
    /\ \A k \in EntriesAmong(consumed - 1) : contents[k].n < TruncateCutoff

----------------------------------------------------------------------------
(* The ordinal codec of the generated enums (EnumPayload)                  *)

CodecEnums ==
  {"Dialect", "GlossLanguage", "AllGlossLanguage", "GlossType", "KanjiInfo",
   "PartOfSpeech", "AllPartOfSpeech", "ReadingInfo", "SenseInfo", "SenseTopic"}

EnumNamed(name) ==
  CASE name = "Dialect"          -> Dialect
    [] name = "GlossLanguage"    -> GlossLanguage
    [] name = "AllGlossLanguage" -> AllGlossLanguage
    [] name = "GlossType"        -> GlossType
    [] name = "KanjiInfo"        -> KanjiInfo
    [] name = "PartOfSpeech"     -> PartOfSpeech
    [] name = "AllPartOfSpeech"  -> AllPartOfSpeech
    [] name = "ReadingInfo"      -> ReadingInfo
    [] name = "SenseInfo"        -> SenseInfo
    [] name = "SenseTopic"       -> SenseTopic

\* the feature selections that change a generated enum
CodecFeatureSets ==
  { l \cup s : l \in PackFeatureSets, s \in SUBSET {"scope-archaic"} }

\* self.to_u32() of a value of the enum
EncodeOrdinal ==
  /\ conv.status = "value"
  /\ conv' = [enum |-> conv.enum, value |-> conv.value, status |-> "encoded",
              code |-> to_u32(EnumNamed(conv.enum), conv.value)]
  /\ UNCHANGED <<features, contents, consumed, omni, handed, pc, files, it, yielded,
                 chk, prio, readers, rerun, pack>>

\* EnumPayload::from_u32(code), of an ordinal that to_u32 returned or of any
\* other word
DecodeOrdinal ==
  /\ conv.status \in {"encoded", "word"}
  /\ conv' = [enum |-> conv.enum, value |-> conv.value, status |-> "decoded",
              code |-> conv.code, of_value |-> conv.status = "encoded",
              decoded |-> from_u32(EnumNamed(conv.enum), conv.code)]
  /\ UNCHANGED <<features, contents, consumed, omni, handed, pc, files, it, yielded,
                 chk, prio, readers, rerun, pack>>

NextCodec == EncodeOrdinal \/ DecodeOrdinal

\* every value of every generated enum, and every word up to two beyond the
\* declared variants, under every feature selection
InitCodec ==
  /\ features \in CodecFeatureSets
  /\ contents = <<>>
  /\ consumed = 0
  /\ omni = EmptyOmni
  /\ handed = <<>>
  /\ pc = "none"
  /\ files = NoFiles
  /\ it = NoIter
  /\ yielded = <<>>
  /\ chk = NoChk
  /\ prio = NoPrio
  /\ \E e \in CodecEnums :
       \/ \E v \in CodesOf(EnumNamed(e)) :
            conv = [enum |-> e, value |-> v, status |-> "value"]
       \/ \E c \in 0..(Len(EnumNamed(e).variants) + 1) :
            conv = [enum |-> e, value |-> "", status |-> "word", code |-> c]
  /\ readers = NoReaders
  /\ rerun = NoRerun
  /\ pack = NoPack

SpecCodec == InitCodec /\ [][NextCodec]_vars

----------------------------------------------------------------------------
(* C24: the ordinals are dense, ordered, and read back                     *)

\* the variant is part of the enum in this build
InBuild(E, v) == E.all \/ v.feature = "" \/ v.feature \in features

\* the place of the code in the declaration of the enum
DeclaredAt(E, code) == CHOOSE i \in DOMAIN E.variants : E.variants[i].code = code

\* the variants of the build that are declared before place i
EnabledBefore(E, i) == {j \in 1..(i - 1) : InBuild(E, E.variants[j])}

\* the number of variants of the enum in this build
EnabledCount(E) == Cardinality(EnabledBefore(E, Len(E.variants) + 1))

\* C24: the ordinal of a value is the number of enabled variants declared
\* before it, so the ordinals are 0..n-1 in declaration order and a disabled
\* variant moves every later variant down; no other value has the same
\* ordinal; from_u32 of the ordinal is the value; and from_u32 of a word is a
\* value exactly when the word is below n, the value of that ordinal, and a
\* panic otherwise.
C24_OrdinalCodec ==
  LET E == EnumNamed(conv.enum)
  IN  /\ conv.status \in {"encoded", "decoded"} /\ conv.value # "" =>
           /\ conv.code = Cardinality(EnabledBefore(E, DeclaredAt(E, conv.value)))
           /\ conv.code < EnabledCount(E)
           /\ \A w \in CodesOf(E) : to_u32(E, w) = conv.code => w = conv.value
      /\ conv.status = "decoded" /\ conv.of_value => conv.decoded = Some(conv.value)
      /\ conv.status = "decoded" /\ ~conv.of_value =>
           IF conv.code >= EnabledCount(E)
             THEN conv.decoded = PanicV
             ELSE /\ IsSome(conv.decoded)
                  /\ to_u32(E, conv.decoded.val) = conv.code

\* without scope-archaic, a part of speech declared after a disabled one has
\* been read back from an ordinal that is lower than its declared place
C24_Witness ==
  /\ conv.status = "decoded"
  /\ conv.enum = "PartOfSpeech"
  /\ conv.value = "adj-na"
  /\ "scope-archaic" \notin features
  /\ conv.code = 3
  /\ DeclaredAt(PartOfSpeech, conv.value) = 6
  /\ conv.decoded = Some("adj-na")

----------------------------------------------------------------------------
(* C25: the uncommon filter has no fallback at the level of the entry      *)

\* C25: a kanji or reading element is kept exactly when its own marker list
\* is non-empty or scope-uncommon is set.  A record is handed over exactly
\* when a reading element and a sense are left, with the kanji elements that
\* are left, none if all were unmarked; a record whose reading elements are
\* all dropped is not handed over, whatever its kanji elements carry.
C25_NoEntryFallback ==
  /\ consumed = 1
  /\ pc # "panicked"
  /\ ~(opts.is_db_minimal /\ contents[1].n >= TruncateCutoff)
  =>
    LET rawK == SelectSeq(contents[1].K, ElementSurvives)
        rawR == SelectSeq(contents[1].R, ElementSurvives)
    IN  /\ rawR = <<>> => handed = <<>>
        /\ rawR # <<>> /\ SurvivingSenses(contents[1]) # <<>> =>
             /\ Len(handed) = 1
             /\ Len(handed[1].k_ele) = Len(rawK)
             /\ \A k \in DOMAIN rawK : handed[1].k_ele[k].keb = rawK[k].t
             /\ Len(handed[1].r_ele) = Len(rawR)
             /\ \A k \in DOMAIN rawR : handed[1].r_ele[k].reb = rawR[k].t

\* without scope-uncommon, a record whose kanji elements are all unmarked was
\* handed over without any kanji element and written
C25_Witness ==
  /\ "scope-uncommon" \notin features
  /\ contents[1].K # <<>>
  /\ \A k \in DOMAIN contents[1].K : contents[1].K[k].p = <<>>
  /\ Len(handed) = 1
  /\ handed[1].k_ele = <<>>
  /\ Len(handed[1].r_ele) >= 1
  /\ files.written

\* without scope-uncommon, a record with a marked kanji element whose reading
\* elements are all unmarked was consumed and not handed over
UnmarkedReadingsCase ==
  /\ "scope-uncommon" \notin features
  /\ \E k \in DOMAIN contents[1].K : contents[1].K[k].p # <<>>
  /\ contents[1].R # <<>>
  /\ \A k \in DOMAIN contents[1].R : contents[1].R[k].p = <<>>
  /\ consumed = 1
  /\ handed = <<>>
  /\ files.written

----------------------------------------------------------------------------
(* C26: the build only appends                                             *)
(*                                                                         *)
(* rerun.omni is the OmniBuffer after the first rerun.fed calls of         *)
(* process_entry and omni the one after all Len(handed) calls, so the pair *)
(* shows the buffer before and after every call, and before and after      *)
(* every run of calls.                                                     *)

IsPrefix(a, b) == Len(a) <= Len(b) /\ SubSeq(b, 1, Len(a)) = a

\* C26: the word pool, the text pool and the offset table before a call of
\* process_entry are prefixes of those after it; the call appends one offset,
\* the index of the four header words of its entry, which are the last four
\* words of the word pool and come after the data region they name; and the
\* recorded offsets increase strictly.
C26_AppendOnly ==
  /\ rerun.fed <= Len(handed) =>
       /\ IsPrefix(rerun.omni.data, omni.data)
       /\ IsPrefix(rerun.omni.text, omni.text)
       /\ IsPrefix(rerun.omni.entry_offsets, omni.entry_offsets)
  /\ rerun.fed + 1 = Len(handed) =>
       /\ Len(omni.entry_offsets) = Len(rerun.omni.entry_offsets) + 1
       /\ LET at  == V(omni.entry_offsets[Len(omni.entry_offsets)])
              hdr == SubSeq(omni.data, Len(omni.data) - 3, Len(omni.data))
          IN  /\ at = Len(omni.data) - 4
              /\ at >= Len(rerun.omni.data)
              /\ hdr[4] = W(handed[Len(handed)].ent_seq)
              /\ Len(rerun.omni.data) <= V(hdr[1])
              /\ V(hdr[1]) < V(hdr[2])
              /\ V(hdr[2]) <= at
  /\ \A i \in 1..(Len(omni.entry_offsets) - 1) :
       V(omni.entry_offsets[i]) < V(omni.entry_offsets[i + 1])

\* the third entry has been appended behind two earlier ones, whose words,
\* text and offsets are still in place
C26_Witness ==
  /\ Len(handed) = 3
  /\ rerun.fed = 2
  /\ Len(rerun.omni.data) > 8
  /\ Len(rerun.omni.text) > 0
  /\ Len(omni.entry_offsets) = 3
  /\ IsPrefix(rerun.omni.data, omni.data)
  /\ V(omni.entry_offsets[3]) = Len(omni.data) - 4

----------------------------------------------------------------------------
(* The intern primitives of the OmniBuffer                                 *)

\* ToPayload::size() of the implementing types: the words of one item
size(kind) ==
  CASE kind = "RawEntry"          -> 4
    [] kind = "RawKanjiElement"   -> 5
    [] kind = "RawReadingElement" -> 5
    [] kind = "RawSense"          -> 5
    [] kind = "RawLSource"        -> 4
    [] kind = "RawGloss"          -> 2
    [] kind = "str"               -> 2
    [] kind \in EnumKinds         -> 1

\* the calls on one OmniBuffer
MaxPushes == 3

InternTexts == { <<>>, <<97>>, <<98, 99>> }

InternWords == { <<>>, << W(7) >>, << W(1), <<1, 0>> >> }

\* arrays of enums, of strings, which intern their bytes, and of kanji
\* elements, which intern the words of their info lists
InternArrays ==
  { [kind |-> "KanjiInfo", items |-> <<>>],
    [kind |-> "KanjiInfo", items |-> <<"iK", "ateji">>],
    [kind |-> "str", items |-> << <<97>>, <<>>, <<98, 99>> >>],
    [kind |-> "RawGloss",
     items |-> << [text |-> <<97>>, lang |-> "eng", g_type |-> "lit"] >>],
    [kind |-> "RawKanjiElement",
     items |-> << [keb |-> <<97>>, ke_inf |-> <<"iK">>, ke_pri |-> NoPriority],
                  [keb |-> <<>>, ke_inf |-> <<>>, ke_pri |-> NoPriority],
                  [keb |-> <<98>>, ke_inf |-> <<"ateji", "iK">>, ke_pri |-> NoPriority] >>] }

\* omni.push_str(text)
PushStr ==
  /\ pack.count < MaxPushes
  /\ \E text \in InternTexts :
       /\ omni' = push_str(omni, text).omni
       /\ pack' = [status |-> "pushed", count |-> pack.count + 1, op |-> "push_str",
                   before |-> omni, input |-> text, r |-> push_str(omni, text).r]
  /\ UNCHANGED <<features, contents, consumed, handed, pc, files, it, yielded,
                 chk, prio, conv, readers, rerun>>

\* omni.push_data(data)
PushData ==
  /\ pack.count < MaxPushes
  /\ \E data \in InternWords :
       /\ omni' = push_data(omni, data).omni
       /\ pack' = [status |-> "pushed", count |-> pack.count + 1, op |-> "push_data",
                   before |-> omni, input |-> data, r |-> push_data(omni, data).r]
  /\ UNCHANGED <<features, contents, consumed, handed, pc, files, it, yielded,
                 chk, prio, conv, readers, rerun>>

\* omni.push_array(data)
PushArray ==
  /\ pack.count < MaxPushes
  /\ \E a \in InternArrays :
       /\ omni' = OmniBuffer_push_array(a.kind, omni, a.items).omni
       /\ pack' = [status |-> "pushed", count |-> pack.count + 1, op |-> "push_array",
                   before |-> omni, input |-> a,
                   r |-> OmniBuffer_push_array(a.kind, omni, a.items).r]
  /\ UNCHANGED <<features, contents, consumed, handed, pc, files, it, yielded,
                 chk, prio, conv, readers, rerun>>

NextIntern == PushStr \/ PushData \/ PushArray

InitIntern ==
  /\ features = {"translations-eng"}
  /\ contents = <<>>
  /\ consumed = 0
  /\ omni = EmptyOmni
  /\ handed = <<>>
  /\ pc = "none"
  /\ files = NoFiles
  /\ it = NoIter
  /\ yielded = <<>>
  /\ chk = NoChk
  /\ prio = NoPrio
  /\ conv = NoConv
  /\ readers = NoReaders
  /\ rerun = NoRerun
  /\ pack = [status |-> "ready", count |-> 0]

SpecIntern == InitIntern /\ [][NextIntern]_vars

----------------------------------------------------------------------------
(* C27: what the intern primitives return and append                      *)

\* the slice of a pool that a StoredRef names
Slice(pool, r) == SubSeq(pool, r.start + 1, r.end)

\* C27: push_str and push_data of an empty input return (0, 0) and leave the
\* pool as it was; of a non-empty input they return (oldLen, oldLen + len),
\* and the pool is the old pool followed by the input, so the returned range
\* slices the input out of it.  push_array of k items of width w returns a
\* range of k*w words that ends the word pool and begins after the old pool
\* and after the words its items interned, and leaves the old pool in front.
C27_InternPrimitives ==
  pack.status = "pushed" =>
    /\ pack.op = "push_str" =>
         IF pack.input = <<>>
           THEN pack.r = StoredRef(0, 0) /\ omni = pack.before
           ELSE /\ pack.r = StoredRef(Len(pack.before.text),
                                      Len(pack.before.text) + Len(pack.input))
                /\ omni.text = pack.before.text \o pack.input
                /\ Slice(omni.text, pack.r) = pack.input
                /\ omni.data = pack.before.data
    /\ pack.op = "push_data" =>
         IF pack.input = <<>>
           THEN pack.r = StoredRef(0, 0) /\ omni = pack.before
           ELSE /\ pack.r = StoredRef(Len(pack.before.data),
                                      Len(pack.before.data) + Len(pack.input))
                /\ omni.data = pack.before.data \o pack.input
                /\ Slice(omni.data, pack.r) = pack.input
                /\ omni.text = pack.before.text
    /\ pack.op = "push_array" =>
         IF pack.input.items = <<>>
           THEN pack.r = StoredRef(0, 0) /\ omni = pack.before
           ELSE /\ pack.r.end - pack.r.start = Len(pack.input.items) * size(pack.input.kind)
                /\ pack.r.end = Len(omni.data)
                /\ pack.r.start >= Len(pack.before.data)
                /\ IsPrefix(pack.before.data, omni.data)
                /\ IsPrefix(pack.before.text, omni.text)
    /\ omni.entry_offsets = pack.before.entry_offsets

\* an array of three kanji elements was pushed onto a pool that held words:
\* the words of their info lists come first, then the block of 15 words
C27_Witness ==
  /\ pack.status = "pushed"
  /\ pack.op = "push_array"
  /\ pack.input.kind = "RawKanjiElement"
  /\ Len(pack.before.data) > 0
  /\ pack.r.start = Len(pack.before.data) + 3
  /\ pack.r.end = pack.r.start + 15
  /\ pack.r.end = Len(omni.data)

----------------------------------------------------------------------------
(* C28: the split points of a header partition its data region             *)

\* the three child ranges of an Entry view, in the order of declaration
EntryRanges(e) == << e.kanji_elements_iter, e.reading_elements_iter, e.senses_iter >>

\* the eleven child ranges of a Sense view, in the order of declaration
SenseRanges(s) == [f \in DOMAIN SenseFields |-> s[SenseFields[f].view]]

\* the lengths of the child lists of an encoded entry and of an encoded sense
EntryLists(e) == << Len(e.k_ele), Len(e.r_ele), Len(e.sense) >>
SenseLists(s) == [f \in DOMAIN SenseFields |-> Len(s[SenseFields[f].raw])]

\* the ranges split [dataStart, dataEnd) in their order, each a whole number
\* of items, and empty where its list is empty
OrderedPartition(ranges, lists, dataStart, dataEnd) ==
  /\ ranges[1].start = dataStart
  /\ ranges[Len(ranges)].end = dataEnd
  /\ \A f \in DOMAIN ranges :
       /\ dataStart <= ranges[f].start
       /\ ranges[f].start <= ranges[f].end
       /\ ranges[f].end <= dataEnd
       /\ (ranges[f].end - ranges[f].start) % ranges[f].N = 0
       /\ lists[f] = 0 => ranges[f].start = ranges[f].end
       /\ ranges[f].end - ranges[f].start = lists[f] * ranges[f].N
  /\ \A f \in 1..(Len(ranges) - 1) : ranges[f].end = ranges[f + 1].start

\* the first two words of the header at word offset: dataStart and dataEnd
HeaderStart(offset) == V(ALL_DATA(offset))
HeaderEnd(offset) == V(ALL_DATA(offset + 1))

\* C28: once the artifacts are written, for every entry inside the
\* field-width ceilings the three child ranges of its header, and for each of
\* its senses the eleven child ranges of the sense's header, run from
\* dataStart to dataEnd of that header in the order of declaration, each
\* beginning where the one before ends, each a multiple of its item width
\* long, and empty for an empty list.
C28_OrderedPartition ==
  files.written =>
    \A i \in 1..Len(handed) :
      WithinCeilings(handed[i]) =>
        /\ IsSome(Decoded(i))
        /\ OrderedPartition(EntryRanges(Decoded(i).val), EntryLists(handed[i]),
                            HeaderStart(V(ALL_ENTRY_OFFSETS(i - 1))),
                            HeaderEnd(V(ALL_ENTRY_OFFSETS(i - 1))))
        /\ \A k \in DOMAIN handed[i].sense :
             OrderedPartition(SenseRanges(SenseView(i, k)), SenseLists(handed[i].sense[k]),
                              HeaderStart(Decoded(i).val.senses_iter.start + 5 * (k - 1)),
                              HeaderEnd(Decoded(i).val.senses_iter.start + 5 * (k - 1)))

\* an entry with a kanji element whose second sense has all eleven lists
\* filled was written, and its ranges are the partition
C28_Witness ==
  /\ files.written
  /\ Len(handed) = 1
  /\ WithinCeilings(handed[1])
  /\ Len(handed[1].k_ele) = 1
  /\ Len(handed[1].sense) = 2
  /\ AllListsFilled(handed[1].sense[2])
  /\ handed[1].sense[1].stagk = <<>>
  /\ Decoded(1).val.kanji_elements_iter.end = Decoded(1).val.kanji_elements_iter.start + 5
  /\ SenseView(1, 2).stagk_iter.start = HeaderStart(Decoded(1).val.senses_iter.start + 5)
  /\ SenseView(1, 2).glosses_iter.end = HeaderEnd(Decoded(1).val.senses_iter.start + 5)
  /\ SenseView(1, 1).stagk_iter.start = SenseView(1, 1).stagk_iter.end

----------------------------------------------------------------------------
(* C29: the marker merge does not depend on order or repetition            *)

\* the rearrangements of 1..n
Perms(n) == {f \in [1..n -> 1..n] : \A i, j \in 1..n : i # j => f[i] # f[j]}

\* the list with its marker at place k put in once more before place j
WithDuplicate(markers, k, j) ==
  SubSeq(markers, 1, j - 1) \o << markers[k] >> \o SubSeq(markers, j, Len(markers))

\* the three values of PriorityInCorpus
Tiers == {"Absent", "Secondary", "Primary"}

\* C29: when parse_prio has returned for a list of markers, it returns the
\* same Priority for every rearrangement of the list and for the list with
\* any of its markers repeated at any place; and merge_cprio of two tiers is
\* the higher of them in the order Absent < Secondary < Primary.
C29_MergeOrderIndependent ==
  /\ prio.status = "returned" =>
       /\ \A f \in Perms(Len(prio.markers)) :
            parse_prio([i \in 1..Len(prio.markers) |-> prio.markers[f[i]]])
              = Some(prio.result)
       /\ \A k \in DOMAIN prio.markers : \A j \in 1..(Len(prio.markers) + 1) :
            parse_prio(WithDuplicate(prio.markers, k, j)) = Some(prio.result)
  /\ \A old \in Tiers, new \in Tiers :
       /\ merge_cprio(old, new) \in {old, new}
       /\ TierRank(merge_cprio(old, new)) >= TierRank(old)
       /\ TierRank(merge_cprio(old, new)) >= TierRank(new)

\* parse_prio has returned for a list with the primary marker of a corpus
\* before its secondary one, followed by a bucket
C29_Witness ==
  /\ prio.status = "returned"
  /\ prio.markers = <<news1, news2, nf05>>
  /\ prio.result.news = "Primary"
  /\ prio.result.frequency_bucket = 5

----------------------------------------------------------------------------
(* C30: parts of speech that the build has disabled                        *)

\* the code names a part of speech of the full domain
KnownPos(c) == c \in CodesOf(AllPartOfSpeech)

\* the code is a token that names no part of speech of the full domain
UnknownPos(c) == c # Null /\ ~KnownPos(c)

\* the code names a part of speech of this build
EnabledPos(c) == c \in CodesOf(PartOfSpeech)

\* the record was traversed to its end by a build that does not cut it off
RecordTraversed ==
  /\ consumed = 1
  /\ ~(opts.is_db_minimal /\ contents[1].n >= TruncateCutoff)

\* the senses handed over are the surviving senses of the record, each with
\* its enabled part-of-speech codes in their order
DisabledPosOmitted ==
  /\ RecordTraversed
  /\ pc # "panicked"
  /\ SelectSeq(contents[1].R, ElementSurvives) # <<>>
  /\ SurvivingSenses(contents[1]) # <<>>
  =>
    /\ Len(handed) = 1
    /\ Len(handed[1].sense) = Len(SurvivingSenses(contents[1]))
    /\ \A j \in DOMAIN handed[1].sense :
         handed[1].sense[j].pos = SelectSeq(SurvivingSenses(contents[1])[j].p, EnabledPos)

\* C30: a part-of-speech code of the full domain that the build has disabled
\* is left out of the list of its sense, the sense, its entry and its other
\* codes stay, in their order, and nothing aborts; and a record with a sense
\* that lists a code outside the full domain aborts the build.
C30_DisabledPosFiltered ==
  /\ DisabledPosOmitted
  /\ RecordTraversed
       /\ (\E k \in DOMAIN contents[1].S : \E c \in Elems(contents[1].S[k].p) : UnknownPos(c))
     => pc = "panicked"

\* without scope-archaic, a record whose first sense is archaic and lists an
\* unknown part of speech was handed over with its other sense and written
C30_Witness ==
  /\ "scope-archaic" \notin features
  /\ Len(contents[1].S) = 2
  /\ RawArchaic(contents[1].S[1])
  /\ \E c \in Elems(contents[1].S[1].p) : UnknownPos(c)
  /\ Len(handed) = 1
  /\ Len(handed[1].sense) = 1
  /\ files.written

\* without scope-archaic, a sense that lists an archaic part of speech between
\* two others was handed over with the two others, in their order
DisabledPosCase ==
  /\ "scope-archaic" \notin features
  /\ Len(contents[1].S) = 1
  /\ contents[1].S[1].p = <<"adj-na", "adj-kari", "adj-i">>
  /\ Len(handed) = 1
  /\ handed[1].sense[1].pos = <<"adj-na", "adj-i">>
  /\ files.written

====
